---------------------------- MODULE Spec2Model ----------------------------
(***************************************************************************)
(* A model of the dependency-aware test execution engine of                *)
(* src/jtbd/runner.go: ExecutionPlan (dependency graph, cycle detection,   *)
(* topological order, ready set) and ExecutionEngine (the four execution   *)
(* modes, the worker pool, the dispatcher, retry-wrapped execution).       *)
(*                                                                         *)
(* Tests are identified by their position in the submitted list, 1..       *)
(* NumTests, so test IDs are unique.  A Dependencies slice is modelled as  *)
(* the set of IDs it holds, iterated in ascending order.                   *)
(***************************************************************************)
EXTENDS Integers, Sequences, FiniteSets, TLC

\* ------------------------------------------------------------------ bounds
NumTests == 3

MaxWorkersIn == 2

MaxRetriesIn == 1

MaxRetriesDeep == 2

\* the largest Test.Priority submitted (the smallest is 1)
MaxPriorityIn == 2

\* the largest Test.Timeout submitted, in ticks of the clock of a test
\* context; RunConfig.TestTimeout is one tick more
MaxTaskTimeout == 1

\* the largest attempt index the backoff is computed for
MaxAttemptIn == 40

\* runner.go:150, the safety cap of RunConfig.MaxWorkers
MaxWorkersCap == 100

\* runner.go:359: baseDelay := 100 * time.Millisecond, in nanoseconds
BaseDelay == 100000000

TestIDs == 1..NumTests

\* ----------------------------------------------------------------- helpers
Min(S) == CHOOSE x \in S : \A y \in S : x <= y

RECURSIVE SortedSeq(_)
SortedSeq(S) == IF S = {} THEN << >> ELSE << Min(S) >> \o SortedSeq(S \ {Min(S)})

Range(s) == { s[i] : i \in 1..Len(s) }

\* the position of x in s (0 when absent)
IndexOf(s, x) == IF \E i \in 1..Len(s) : s[i] = x
                 THEN Min({ i \in 1..Len(s) : s[i] = x })
                 ELSE 0

\* a Go map read: the zero value for a missing key
DepsOf(deps, id) == IF id \in DOMAIN deps THEN deps[id] ELSE {}

\* per test, Test.Priority (runner.go:46); the plan has it at hand through
\* ep.tests
VARIABLE Priority

\* ---------------------------------------------------- ExecutionPlan (pure)
NoErr == [kind |-> "none", test |-> 0]

CircularErr(id) == [kind |-> "circular dependency detected involving test", test |-> id]

OrderErr == [kind |-> "circular dependency detected", test |-> 0]

NoPlan == [built |-> FALSE, dependencies |-> << >>, completed |-> {}, failed |-> {}]

\* hasCycle: DFS from testID; visited and recStack are the maps the Go code
\* mutates in place, returned here with the verdict.
RECURSIVE hasCycle(_, _, _, _)
RECURSIVE hasCycleLoop(_, _, _, _)
\* a DFS that never takes a test off the recursion stack
recStackPopMissing(recStack, testID) == recStack

\* the pop of the recursion stack, runner.go:667
recStackPop(recStack, testID) == recStack \ {testID}

hasCycle(deps, testID, visited, recStack) ==
    LET r == hasCycleLoop(deps, SortedSeq(DepsOf(deps, testID)),
                          visited \cup {testID}, recStack \cup {testID})
    IN  IF r.cycle THEN r
        ELSE [cycle |-> FALSE, visited |-> r.visited,
              recStack |-> recStackPop(r.recStack, testID)]

\* the loop over ep.dependencies[testID], runner.go:657-665
hasCycleLoop(deps, rest, visited, recStack) ==
    IF rest = << >> THEN [cycle |-> FALSE, visited |-> visited, recStack |-> recStack]
    ELSE LET depID == Head(rest) IN
         IF depID \notin visited
         THEN LET r == hasCycle(deps, depID, visited, recStack)
              IN  IF r.cycle THEN r
                  ELSE hasCycleLoop(deps, Tail(rest), r.visited, r.recStack)
         ELSE IF depID \in recStack
              THEN [cycle |-> TRUE, visited |-> visited, recStack |-> recStack]
              ELSE hasCycleLoop(deps, Tail(rest), visited, recStack)

\* detectCircularDependencies: the loop over ep.tests from position i
RECURSIVE detectLoop(_, _, _, _)
detectLoop(deps, i, visited, recStack) ==
    IF i > NumTests THEN NoErr
    ELSE IF i \notin visited
         THEN LET r == hasCycle(deps, i, visited, recStack)
              IN  IF r.cycle THEN CircularErr(i)
                  ELSE detectLoop(deps, i + 1, r.visited, r.recStack)
         ELSE detectLoop(deps, i + 1, visited, recStack)

detectCircularDependencies(deps) == detectLoop(deps, 1, {}, {})

\* NewExecutionPlan: the plan and the error it returns
NewExecutionPlan(deps) ==
    LET err == detectCircularDependencies(deps)
    IN  IF err # NoErr
        THEN [plan |-> NoPlan, err |-> err]
        ELSE [plan |-> [built |-> TRUE, dependencies |-> deps,
                        completed |-> {}, failed |-> {}],
              err |-> NoErr]


\* GetExecutionOrder, runner.go:543-552: inDegree[dep]++ for every dependency
\* of every test (a missing key reads as 0, so the map is total here)
buildInDegree(deps) ==
    [id \in 0..NumTests |-> Cardinality({ t \in TestIDs : id \in deps[t] })]

\* a queue seeded with every test, its dependencies not looked at
initialQueueAll(deps) == SortedSeq(TestIDs)

\* a queue seeded with the tests with no dependencies, those of the highest
\* Priority first
initialQueueByPriority(deps) ==
    LET base == SelectSeq(SortedSeq(TestIDs), LAMBDA t : deps[t] = {})
    IN  SelectSeq(base, LAMBDA t : Priority[t] = MaxPriorityIn)
        \o SelectSeq(base, LAMBDA t : Priority[t] # MaxPriorityIn)

\* runner.go:558-563: the tests with no dependencies, in list order
initialQueue(deps) == SelectSeq(SortedSeq(TestIDs), LAMBDA t : deps[t] = {})

\* runner.go:576-585: for every test that depends on current, decrement its
\* in-degree and enqueue it when the in-degree reaches 0
RECURSIVE resolveLoop(_, _, _, _, _)
resolveLoop(deps, current, i, queue, inDegree) ==
    IF i > NumTests THEN [queue |-> queue, inDegree |-> inDegree]
    ELSE IF current \in deps[i]
         THEN LET d == inDegree[i] - 1
              IN  resolveLoop(deps, current, i + 1,
                              IF d = 0 THEN Append(queue, i) ELSE queue,
                              [inDegree EXCEPT ![i] = d])
         ELSE resolveLoop(deps, current, i + 1, queue, inDegree)

\* runner.go:570-586: the queue loop of Kahn's algorithm
RECURSIVE kahnLoop(_, _, _, _)
kahnLoop(deps, queue, ordered, inDegree) ==
    IF queue = << >> THEN ordered
    ELSE LET current == Head(queue)
             r == resolveLoop(deps, current, 1, Tail(queue), inDegree)
         IN  kahnLoop(deps, r.queue, Append(ordered, current), r.inDegree)

\* GetExecutionOrder: the order and the error it returns
GetExecutionOrder(p) ==
    LET deps == p.dependencies
        out  == kahnLoop(deps, initialQueue(deps), << >>, buildInDegree(deps))
    IN  IF Len(out) # NumTests
        THEN [ordered |-> << >>, err |-> OrderErr]
        ELSE [ordered |-> out, err |-> NoErr]

\* -------------------------------------------------------------------- state
VARIABLES
    Dependencies,    \* Test.Dependencies of every submitted test
    MaxRetries,      \* Test.MaxRetries of every submitted test
    config,          \* the caller's RunConfig (NewExecutionEngine holds a pointer to it)
    phase,           \* where the caller is: construction, Run, returned
    plan,            \* ee.plan
    err,             \* the error of NewExecutionPlan / NewExecutionEngine
    ordered,         \* the order GetExecutionOrder returned
    orderErr,        \* the error GetExecutionOrder returned
    ctx,             \* ee.ctx: "live", "deadline exceeded" or "canceled"
    results,         \* ee.results, kept per test: the results appended for it
    completedTests,  \* ee.completedTests
    failedTestsList, \* ee.failedTestsList
    workChan,        \* ee.workChan, the buffered items
    chanClosed,      \* whether ee.workChan is closed
    disp,            \* the dispatcher goroutine: its position and locals
    ex,              \* executor 0 is Run's own goroutine, 1.. are the workers
    seqIdx,          \* the position of the sequential loops in ordered
    runOut,          \* what Run returned
    lifecycleCalls,  \* per test, the runTestLifecycle calls made so far
    attemptFails,    \* per test, the runTestLifecycle calls that returned an error
    tests,           \* the test list handed to NewExecutionEngine (the IDs, in order)
    configIn,        \* the RunConfig fields as the caller set them
    metrics,         \* the atomic counters GetMetrics reads
    wg,              \* ee.wg, the WaitGroup counter of the worker pool
    stop,            \* a Stop call: its caller and the goroutine it starts
    cancelledInFlight,  \* the tests seen inside runTestLifecycle when the context was cancelled
    callbacks,       \* per test, which of Setup, Execute and Teardown are set
    Timeout,         \* per test, Test.Timeout in ticks
    sleepIn,         \* the attempt index and the random number of a backoff
    slept,           \* the Duration handed to time.Sleep for it
    TestTimeout,     \* RunConfig.TestTimeout in ticks
    life,            \* per executor, its position inside runTestLifecycle
    callLog          \* per test, the callbacks invoked and the returns of runTestLifecycle

inputVars == << Dependencies, MaxRetries, tests, configIn, callbacks, Timeout,
               TestTimeout, Priority, sleepIn, slept >>

lifeVars == << life, callLog >>

planVars == << plan, err, ordered, orderErr >>

engineVars == << ctx, results, completedTests, failedTestsList, workChan,
                 chanClosed, disp, ex, seqIdx, runOut, lifecycleCalls,
                 attemptFails, metrics, wg, stop, cancelledInFlight, life,
                 callLog >>

vars == << Dependencies, MaxRetries, config, phase, plan, err, ordered,
           orderErr, ctx, results, completedTests, failedTestsList, workChan,
           chanClosed, disp, ex, seqIdx, runOut, lifecycleCalls, attemptFails,
           tests, configIn, metrics, wg, stop, cancelledInFlight, callbacks,
           Timeout, TestTimeout, Priority, sleepIn, slept, life, callLog >>

\* ------------------------------------------- the backoff of executeTest
\* time.Duration is an int64: here four limbs of 16 bits, the lowest first,
\* in two's complement; wider sequences hold numbers that do not wrap
LimbBits == 16

LimbBase == 2 ^ LimbBits

Int64Limbs == 4

WideLimbs == Int64Limbs + 2

\* a natural number below 2^31 as n limbs
FromNat(x, n) ==
    [i \in 1..n |-> IF i = 1 THEN x % LimbBase
                    ELSE IF i = 2 THEN x \div LimbBase ELSE 0]

RECURSIVE addFrom(_, _, _, _)
addFrom(a, b, i, carry) ==
    IF i > Len(a) THEN << >>
    ELSE LET sum == a[i] + b[i] + carry
         IN  << sum % LimbBase >> \o addFrom(a, b, i + 1, sum \div LimbBase)

\* a + b in Len(a) limbs; the carry out of the top limb is lost, as in Go's
\* integer arithmetic
AddLimbs(a, b) == addFrom(a, b, 1, 0)

\* -a in two's complement
NegLimbs(a) ==
    AddLimbs([i \in 1..Len(a) |-> LimbBase - 1 - a[i]], FromNat(1, Len(a)))

\* a signed number of magnitude below 2^31 as n limbs
FromInt(x, n) == IF x >= 0 THEN FromNat(x, n) ELSE NegLimbs(FromNat(-x, n))

\* a * m for a factor m of at most 2^15, in Len(a) limbs
RECURSIVE mulFrom(_, _, _, _)
mulFrom(a, m, i, carry) ==
    IF i > Len(a) THEN << >>
    ELSE LET prod == a[i] * m + carry
         IN  << prod % LimbBase >> \o mulFrom(a, m, i + 1, prod \div LimbBase)

\* a * 2^k in Len(a) limbs: the bits within a limb, then whole limbs; what
\* leaves the top limb is lost
ShiftLeft(a, k) ==
    LET byBits  == mulFrom(a, 2 ^ (k % LimbBits), 1, 0)
        byLimbs == k \div LimbBits
    IN  [i \in 1..Len(a) |-> IF i <= byLimbs THEN 0 ELSE byBits[i - byLimbs]]

\* the sign bit of a two's complement number
IsNegative(a) == a[Len(a)] >= LimbBase \div 2

\* a < b for numbers without sign of the same length
LessLimbs(a, b) ==
    \E i \in 1..Len(a) : a[i] < b[i] /\ \A j \in (i + 1)..Len(a) : a[j] = b[j]

\* runner.go:360: time.Duration(math.Pow(2, float64(attempt))) * baseDelay,
\* an int64 product that wraps (2^attempt is exact for the attempts drawn)
backoffOf(attempt) == ShiftLeft(FromNat(BaseDelay, Int64Limbs), attempt)

\* runner.go:361: time.Duration(rand.Float64()*float64(baseDelay)*2 -
\* float64(baseDelay)); rnd is rand.Float64()*2*baseDelay as its whole part
\* and whether a fraction follows; the conversion truncates toward zero
jitterOf(rnd) ==
    LET d == rnd.whole - BaseDelay
    IN  IF d < 0 /\ rnd.fraction THEN d + 1 ELSE d

\* runner.go:362: backoff + jitter, the argument of time.Sleep
sleepArg(attempt, rnd) ==
    AddLimbs(backoffOf(attempt), FromInt(jitterOf(rnd), Int64Limbs))

\* values of rand.Float64(), in [0, 1), scaled by 2 * baseDelay: the ends
\* and the middle of the range
RndSamples ==
    [whole : {0, 1, BaseDelay - 1, BaseDelay, 2 * BaseDelay - 1}, fraction : BOOLEAN]

NotSlept == [state |-> "none", arg |-> << >>]

\* no backoff is being computed
NoBackoff ==
    /\ sleepIn = [attempt |-> 0, rnd |-> [whole |-> 0, fraction |-> FALSE]]
    /\ slept = NotSlept

\* ------------------------------------------ ExecutionEngine (definitions)
Workers == 1..MaxWorkersIn

Executors == 0..MaxWorkersIn

IdleExecutor == [pc |-> "off", test |-> 0, attempt |-> 0, retryCount |-> 0,
                 status |-> "pending"]

IdleDispatcher == [pc |-> "off", dispatched |-> {}, ready |-> << >>]

NoResults == [t \in TestIDs |-> << >>]

NotReturned == [returned |-> FALSE, nilResults |-> FALSE, results |-> NoResults,
                err |-> NoErr]

\* the zero values of the atomic counters, runner.go:102-107
NoMetrics == [Total |-> 0, Passed |-> 0, Failed |-> 0, Skipped |-> 0, Retries |-> 0]

\* a test with all three callbacks set
AllPresent == [Setup |-> TRUE, Execute |-> TRUE, Teardown |-> TRUE]

\* a test with no callback set
NonePresent == [Setup |-> FALSE, Execute |-> FALSE, Teardown |-> FALSE]

\* runTestLifecycle, runner.go:385-420: not entered, or at its first
\* statement, with no error to return and no deferred Teardown
LifeIdle == [step |-> "setup", err |-> "", deferred |-> FALSE, elapsed |-> 0]

\* every test with the same Priority
SamePriority == [t \in TestIDs |-> 1]

\* no test sets its own Timeout
NoTaskTimeouts == [t \in TestIDs |-> 0]

NoLog == [t \in TestIDs |-> << >>]

\* no Stop call was made
StopIdle == [caller |-> "off", helper |-> "off"]

\* the engine's fields before NewExecutionEngine and in the plan-only runs
EngineIdle ==
    /\ ctx = "live"
    /\ results = NoResults
    /\ completedTests = {}
    /\ failedTestsList = {}
    /\ workChan = << >>
    /\ chanClosed = FALSE
    /\ disp = IdleDispatcher
    /\ ex = [e \in Executors |-> IdleExecutor]
    /\ seqIdx = 0
    /\ runOut = NotReturned
    /\ lifecycleCalls = [t \in TestIDs |-> 0]
    /\ attemptFails = [t \in TestIDs |-> 0]
    /\ metrics = NoMetrics
    /\ wg = 0
    /\ stop = StopIdle
    /\ cancelledInFlight = {}
    /\ life = [e \in Executors |-> LifeIdle]
    /\ callLog = NoLog

\* ------------------------------------------------- the plan on its own
PlanInit ==
    /\ Dependencies \in [TestIDs -> SUBSET (0..NumTests)]
    /\ MaxRetries = [t \in TestIDs |-> 0]
    /\ config = [Mode |-> "sequential", MaxWorkers |-> 1, EnableRetry |-> FALSE]
    /\ tests = SortedSeq(TestIDs)
    /\ configIn = config
    /\ phase = "new"
    /\ plan = NoPlan
    /\ err = NoErr
    /\ ordered = << >>
    /\ orderErr = NoErr
    /\ EngineIdle
    /\ callbacks = [t \in TestIDs |-> AllPresent]
    /\ Timeout = NoTaskTimeouts
    /\ TestTimeout = MaxTaskTimeout + 1
    /\ Priority \in [TestIDs -> 1..MaxPriorityIn]
    /\ NoBackoff

\* a caller builds the plan
PlanBuild ==
    /\ phase = "new"
    /\ LET r == NewExecutionPlan(Dependencies)
       IN  /\ plan' = r.plan
           /\ err' = r.err
           /\ phase' = IF r.err = NoErr THEN "planned" ELSE "rejected"
    /\ UNCHANGED << inputVars, lifeVars, config, ordered, orderErr, engineVars >>

\* a caller asks the plan for the execution order
PlanOrder ==
    /\ phase = "planned"
    /\ LET r == GetExecutionOrder(plan)
       IN  /\ ordered' = r.ordered
           /\ orderErr' = r.err
    /\ phase' = "ordered"
    /\ UNCHANGED << inputVars, lifeVars, config, plan, err, engineVars >>

PlanNext == PlanBuild \/ PlanOrder

PlanSpec == PlanInit /\ [][PlanNext]_vars


\* -------------------------------------------- properties of the plan
\* the tests reachable from t along one or more dependency edges
RECURSIVE DepClosure(_, _, _)
DepClosure(deps, S, n) ==
    IF n = 0 THEN S
    ELSE DepClosure(deps, S \cup UNION { DepsOf(deps, x) : x \in S }, n - 1)

DependsOnPlus(deps, t) == DepClosure(deps, DepsOf(deps, t), NumTests)

\* the dependency relation has a cycle (a test depending on itself included)
Cyclic(deps) == \E t \in TestIDs : t \in DependsOnPlus(deps, t)

AllDepsSubmitted == \A t \in TestIDs : Dependencies[t] \subseteq TestIDs

IsPermutation(s) == Len(s) = NumTests /\ Range(s) = TestIDs

C2_OrderForEveryAcceptedSet ==
    (phase = "ordered" /\ AllDepsSubmitted) =>
        (orderErr = NoErr /\ IsPermutation(ordered))

\* C3: NewExecutionPlan returns the circular-dependency error exactly when
\* the dependency relation has a cycle; construction ends in a verdict
\* (the depth-first search is evaluated to its end for every graph), and
\* with an error no plan is returned.
C3_CycleRejectedExactly ==
    /\ phase \in {"new", "planned", "rejected", "ordered"}
    /\ phase # "new" =>
        /\ (err # NoErr) <=> Cyclic(Dependencies)
        /\ err # NoErr => /\ plan = NoPlan
                          /\ phase = "rejected"
                          /\ err.kind = "circular dependency detected involving test"
        /\ err = NoErr => plan.built /\ plan.dependencies = Dependencies

\* a rejected set with a two-test cycle and no test depending on itself
C3_Witness ==
    /\ phase = "rejected"
    /\ err = CircularErr(1)
    /\ \A t \in TestIDs : t \notin Dependencies[t]
    /\ \E a, b \in TestIDs : a # b /\ a \in Dependencies[b] /\ b \in Dependencies[a]


\* ------------------------------------------------------ ExecutionEngine
Modes == {"sequential", "parallel", "fail-fast", "comprehensive"}

\* a cap that has no upper limit
ClampWorkersNoCap(n) == IF n < 1 THEN 1 ELSE n

\* NewExecutionEngine, runner.go:146-152: MaxWorkers is capped in place
ClampWorkers(n) == IF n < 1 THEN 1 ELSE IF n > MaxWorkersCap THEN MaxWorkersCap ELSE n

\* runParallel starts one worker too many
workerCountOneMore(cfg) == cfg.MaxWorkers + 1

\* runParallel, runner.go:225-228: the workers started
workerCount(cfg) == cfg.MaxWorkers

\* the attempt budget does not look at RunConfig.EnableRetry
maxAttemptsIgnoringEnable(cfg, maxRetries) ==
    IF maxRetries > 0 THEN maxRetries + 1 ELSE 1

\* a result Passed although every attempt returned an error
exhaustedStatusPassed == "passed"

\* executeTest, runner.go:376: the status once the attempts are used up
exhaustedStatus == "failed"

\* executeTest, runner.go:348-351
maxAttempts(cfg, maxRetries) ==
    IF cfg.EnableRetry /\ maxRetries > 0 THEN maxRetries + 1 ELSE 1

\* shouldRunTest, runner.go:422-436, for a test with dependencies deps
shouldRunTest(deps, completed, failed) ==
    \A depID \in deps : ~(depID \in failed) /\ depID \in completed

\* a ready set that does not wait for the dependencies
GetReadyTestsNoDeps(p) ==
    SelectSeq(SortedSeq(TestIDs), LAMBDA t : ~(t \in p.completed \/ t \in p.failed))

\* a ready set that still holds the tests already completed or failed
GetReadyTestsWithDone(p) ==
    SelectSeq(SortedSeq(TestIDs),
              LAMBDA t : \A depID \in p.dependencies[t] :
                             ~(~(depID \in p.completed) \/ depID \in p.failed))

\* GetReadyTests, runner.go:595-620
GetReadyTests(p) ==
    SelectSeq(SortedSeq(TestIDs),
              LAMBDA t : /\ ~(t \in p.completed \/ t \in p.failed)
                         /\ \A depID \in p.dependencies[t] :
                                ~(~(depID \in p.completed) \/ depID \in p.failed))

\* a marking that takes every executed test for a completed one
markedAsCompletedAlways(status) == "completed"

\* the branches of the status test swapped
markedAsSwapped(status) ==
    IF status = "passed" THEN "failed"
    ELSE IF status = "failed" THEN "completed" ELSE "none"

\* runner.go:212-216, 300-306: which set a finished test is entered in
markedAs(status) ==
    IF status = "passed" THEN "completed"
    ELSE IF status = "failed" THEN "failed" ELSE "none"

\* a FailFast loop that goes on after a failure
failFastGoesOn(mode, status) == FALSE

\* runFailFast, runner.go:264-267: the return on the first Failed result
failFastStops(mode, status) == mode = "fail-fast" /\ status = "failed"

\* recordResult, runner.go:443: the append to ee.results
Recorded(res, r) == [res EXCEPT ![r.TestID] = Append(@, r)]

SkipResult(t, reason) ==
    [TestID |-> t, Status |-> "skipped", RetryCount |-> 0, SkipReason |-> reason]

TestFailedErr(t) == [kind |-> "test failed", test |-> t]

NoTestsErr == [kind |-> "no tests provided", test |-> 0]

UnknownModeErr == [kind |-> "unknown execution mode", test |-> 0]

\* a total that leaves one test out
totalTestsStoredShort(ts) == Len(ts) - 1

\* runner.go:173: ee.totalTests.Store(int32(len(tests)))
totalTestsStored(ts) == Len(ts)

\* a recordResult that counts no skipped result
countedNoSkips(m, status) ==
    IF status = "passed" THEN [m EXCEPT !.Passed = @ + 1]
    ELSE IF status = "failed" THEN [m EXCEPT !.Failed = @ + 1]
    ELSE m

\* recordResult, runner.go:445-452: the counter of the result's status
counted(m, status) ==
    IF status = "passed" THEN [m EXCEPT !.Passed = @ + 1]
    ELSE IF status = "failed" THEN [m EXCEPT !.Failed = @ + 1]
    ELSE IF status = "skipped" THEN [m EXCEPT !.Skipped = @ + 1]
    ELSE m

\* GetMetrics, runner.go:499-508: the five counters as they are now
GetMetrics == metrics

CtxErr(c) == [kind |-> c, test |-> 0]

ctxDone == ctx # "live"

\* the tests inside runTestLifecycle, runner.go:385-420
InFlight == { ex[e].test : e \in { x \in DOMAIN ex : ex[x].pc = "lifecycle" } }

\* a Wait that returns whatever the counter is
wgWaitAlways(n) == TRUE

\* ee.wg.Wait(), runner.go:237, 487: it returns once the counter is zero
wgWait(n) == n = 0

\* the deferred ee.cancel() of Run, runner.go:180
Cancelled(c) == IF c = "live" THEN "canceled" ELSE c

Returned(res, isNil, e) ==
    [returned |-> TRUE, nilResults |-> isNil, results |-> res, err |-> e]

\* the submitted tests (all with the same retry budget) and the RunConfig
Init ==
    /\ Dependencies \in [TestIDs -> SUBSET TestIDs]
    /\ \E r \in 0..MaxRetriesIn : MaxRetries = [t \in TestIDs |-> r]
    /\ config \in [Mode : Modes, MaxWorkers : 0..MaxWorkersIn, EnableRetry : BOOLEAN]
    /\ tests = SortedSeq(TestIDs)
    /\ configIn = config
    /\ phase = "new"
    /\ plan = NoPlan
    /\ err = NoErr
    /\ ordered = << >>
    /\ orderErr = NoErr
    /\ EngineIdle
    /\ callbacks = [t \in TestIDs |-> AllPresent]
    /\ Timeout = NoTaskTimeouts
    /\ TestTimeout = MaxTaskTimeout + 1
    /\ Priority = SamePriority
    /\ NoBackoff

\* NewExecutionEngine, runner.go:137-176: an empty list is refused before
\* anything else; MaxWorkers is capped through the caller's pointer before the
\* plan is built; the mode is not looked at
NewExecutionEngine ==
    /\ phase = "new"
    /\ IF Len(tests) = 0
       THEN /\ err' = NoTestsErr
            /\ phase' = "rejected"
            /\ UNCHANGED << config, plan, metrics >>
       ELSE /\ config' = [config EXCEPT !.MaxWorkers = ClampWorkers(config.MaxWorkers)]
            /\ LET r == NewExecutionPlan(Dependencies)
               IN  /\ plan' = r.plan
                   /\ err' = r.err
                   /\ phase' = IF r.err = NoErr THEN "constructed" ELSE "rejected"
                   /\ metrics' = IF r.err = NoErr
                                 THEN [metrics EXCEPT !.Total = totalTestsStored(tests)]
                                 ELSE metrics
    /\ UNCHANGED << wg, stop, cancelledInFlight >>
    /\ UNCHANGED << inputVars, lifeVars, ordered, orderErr, ctx, results, completedTests,
                    failedTestsList, workChan, chanClosed, disp, ex, seqIdx,
                    runOut, lifecycleCalls, attemptFails >>

\* the global timeout of the run context expires, runner.go:159
GlobalTimeout ==
    /\ phase \in {"constructed", "running"}
    /\ ctx = "live"
    /\ ctx' = "deadline exceeded"
    /\ UNCHANGED << metrics, wg, stop, cancelledInFlight >>
    /\ UNCHANGED << inputVars, lifeVars, config, phase, planVars, results, completedTests,
                    failedTestsList, workChan, chanClosed, disp, ex, seqIdx,
                    runOut, lifecycleCalls, attemptFails >>

\* Run in Sequential and FailFast modes, up to the loop: runner.go:197-201,
\* 243-247
RunSequential ==
    /\ phase = "constructed"
    /\ config.Mode \in {"sequential", "fail-fast"}
    /\ LET r == GetExecutionOrder(plan)
       IN  /\ ordered' = r.ordered
           /\ orderErr' = r.err
           /\ IF r.err # NoErr
              THEN /\ phase' = "returned"
                   /\ runOut' = Returned(NoResults, TRUE, r.err)
                   /\ ctx' = Cancelled(ctx)
                   /\ UNCHANGED << ex, seqIdx >>
              ELSE /\ phase' = "running"
                   /\ ex' = [ex EXCEPT ![0].pc = "next"]
                   /\ seqIdx' = 1
                   /\ UNCHANGED << runOut, ctx >>
    /\ UNCHANGED << metrics, wg, stop, cancelledInFlight >>
    /\ UNCHANGED << inputVars, lifeVars, config, plan, err, results, completedTests,
                    failedTestsList, workChan, chanClosed, disp, lifecycleCalls,
                    attemptFails >>

\* Run in Parallel and Comprehensive modes: the workers and the dispatcher
\* are started, runner.go:223-234, 276-278
RunParallel ==
    /\ phase = "constructed"
    /\ config.Mode \in {"parallel", "comprehensive"}
    /\ phase' = "running"
    /\ ex' = [e \in Executors |->
                IF e >= 1 /\ e <= workerCount(config) THEN [ex[e] EXCEPT !.pc = "wait"]
                ELSE ex[e]]
    /\ disp' = [disp EXCEPT !.pc = "top"]
    /\ wg' = workerCount(config)
    /\ UNCHANGED << metrics, stop, cancelledInFlight >>
    /\ UNCHANGED << inputVars, lifeVars, config, planVars, ctx, results, completedTests,
                    failedTestsList, workChan, chanClosed, seqIdx, runOut,
                    lifecycleCalls, attemptFails >>

\* one iteration head of the loops of runSequential / runFailFast,
\* runner.go:203-209, 249-261, and their return after the loop
SeqLoop ==
    /\ phase = "running"
    /\ ex[0].pc = "next"
    /\ IF seqIdx > Len(ordered)
       THEN /\ phase' = "returned"
            /\ runOut' = Returned(results, FALSE, NoErr)
            /\ ctx' = Cancelled(ctx)
            /\ ex' = [ex EXCEPT ![0] = IdleExecutor]
            /\ UNCHANGED << results, seqIdx, metrics >>
       ELSE LET test == ordered[seqIdx] IN
            IF config.Mode = "fail-fast" /\ ctxDone
            THEN /\ phase' = "returned"
                 /\ runOut' = Returned(results, FALSE, CtxErr(ctx))
                 /\ ex' = [ex EXCEPT ![0] = IdleExecutor]
                 /\ UNCHANGED << results, seqIdx, ctx, metrics >>
            ELSE IF ~shouldRunTest(Dependencies[test], completedTests, failedTestsList)
            THEN /\ results' = Recorded(results, SkipResult(test, "dependencies failed"))
                 /\ metrics' = counted(metrics, "skipped")
                 /\ seqIdx' = seqIdx + 1
                 /\ UNCHANGED << phase, runOut, ctx, ex >>
            ELSE /\ ex' = [ex EXCEPT ![0] = [pc |-> "attempt", test |-> test,
                                             attempt |-> 0, retryCount |-> 0,
                                             status |-> "running"]]
                 /\ UNCHANGED << phase, runOut, ctx, results, seqIdx, metrics >>
    /\ UNCHANGED << wg, stop, cancelledInFlight >>
    /\ UNCHANGED << inputVars, lifeVars, config, planVars, completedTests, failedTestsList,
                    workChan, chanClosed, disp, lifecycleCalls, attemptFails >>

\* a retry counter that counts the first attempt too
retriesAddedEveryAttempt(m, attempt) == [m EXCEPT !.Retries = @ + 1]

\* executeTest, runner.go:355-357: ee.retryAttempts.Add(1) before a retry
retriesAdded(m, attempt) ==
    IF attempt > 0 THEN [m EXCEPT !.Retries = @ + 1] ELSE m

\* executeTest, runner.go:354-365: an attempt starts; before a retry the
\* retry count is set and the backoff is slept
AttemptStart(e) ==
    /\ ex[e].pc = "attempt"
    /\ ex' = [ex EXCEPT ![e].pc = "lifecycle",
                        ![e].retryCount = IF ex[e].attempt > 0 THEN ex[e].attempt
                                          ELSE ex[e].retryCount]
    /\ metrics' = retriesAdded(metrics, ex[e].attempt)
    /\ lifecycleCalls' = [lifecycleCalls EXCEPT ![ex[e].test] = @ + 1]
    /\ UNCHANGED << wg, stop, cancelledInFlight >>
    /\ UNCHANGED << inputVars, lifeVars, config, phase, planVars, ctx, results,
                    completedTests, failedTestsList, workChan, chanClosed, disp,
                    seqIdx, runOut, attemptFails >>

\* runTestLifecycle returns, runner.go:365-381: with no error the result is
\* Passed; with an error the next attempt follows, or Failed after the last
\* (what happened inside runTestLifecycle is left to the action that uses
\* this one)
AttemptReturns(e, ok) ==
    /\ ex[e].pc = "lifecycle"
    /\ IF ok
       THEN /\ ex' = [ex EXCEPT ![e].pc = "record", ![e].status = "passed"]
            /\ UNCHANGED attemptFails
       ELSE /\ attemptFails' = [attemptFails EXCEPT ![ex[e].test] = @ + 1]
            /\ IF ex[e].attempt + 1 < maxAttempts(config, MaxRetries[ex[e].test])
               THEN ex' = [ex EXCEPT ![e].pc = "attempt", ![e].attempt = @ + 1]
               ELSE ex' = [ex EXCEPT ![e].pc = "record", ![e].status = exhaustedStatus]
    /\ UNCHANGED << metrics, wg, stop, cancelledInFlight >>
    /\ UNCHANGED << inputVars, config, phase, planVars, ctx, results,
                    completedTests, failedTestsList, workChan, chanClosed, disp,
                    seqIdx, runOut, lifecycleCalls >>

\* the callbacks of the test return what they like
AttemptEnd(e) ==
    /\ \E ok \in BOOLEAN : AttemptReturns(e, ok)
    /\ UNCHANGED lifeVars

\* the callbacks of the test observe their context, runner.go:391, 415: on a
\* cancelled run context (the test context is derived from it) they return
\* an error
AttemptEndObserving(e) ==
    /\ \E ok \in BOOLEAN : (ctxDone => ~ok) /\ AttemptReturns(e, ok)
    /\ UNCHANGED lifeVars

\* the outcomes a callback can return: nil or an error
CallbackErrs == {"", "error"}

\* an entry of the call log: the runTestLifecycle call of the test it belongs
\* to, the callback invoked (or "return"), and the error that came back
Logged(log, t, cb, e) ==
    [log EXCEPT ![t] = Append(@, [call |-> lifecycleCalls[t], cb |-> cb, err |-> e])]

\* a test context that never takes the test's own Timeout
testTimeoutConfigOnly(taskTimeout, cfgTimeout) == cfgTimeout

\* runTestLifecycle, runner.go:387-390: Test.Timeout when positive,
\* RunConfig.TestTimeout otherwise
testTimeout(taskTimeout, cfgTimeout) ==
    IF taskTimeout > 0 THEN taskTimeout ELSE cfgTimeout

\* runTestLifecycle, runner.go:391: context.WithTimeout(ctx, timeout)
testCtx(t) ==
    [parent |-> "run", deadline |-> TRUE,
     timeout |-> testTimeout(Timeout[t], TestTimeout)]

\* runTestLifecycle, runner.go:404: context.Background()
teardownCtx == [parent |-> "background", deadline |-> FALSE, timeout |-> 0]

\* whether context c is done, el ticks after it was made: its parent is
\* done or its own deadline has passed
contextDone(c, runCtx, el) ==
    \/ c.parent = "run" /\ runCtx # "live"
    \/ c.deadline /\ el >= c.timeout

\* an entry of the call log for a callback: as Logged, with the context the
\* callback was handed, whether that context was done at the call, and the
\* run context and the age of the test context at the call
LoggedCall(log, t, cb, e, c, el) ==
    [log EXCEPT ![t] = Append(@, [call |-> lifecycleCalls[t], cb |-> cb, err |-> e,
                                  given |-> c, done |-> contextDone(c, ctx, el),
                                  runCtx |-> ctx, elapsed |-> el])]

\* runTestLifecycle, runner.go:396-398: the error a failed Setup turns into
setupResult(cbErr) == IF cbErr = "" THEN "" ELSE "setup failed"

\* a Teardown deferred ahead of Setup
deferredBeforeSetup(setupErr, hasTeardown) == hasTeardown

\* runTestLifecycle, runner.go:396-408: the Teardown is deferred after Setup
\* returned without an error, when the test has one
deferredAfterSetup(setupErr, hasTeardown) == setupErr = "" /\ hasTeardown

\* a missing Execute taken for a success
executeResultNilPasses(present, cbErr) ==
    IF ~present \/ cbErr = "" THEN "" ELSE "execute failed"

\* runTestLifecycle, runner.go:411-419: the error of the Execute step
executeResult(present, cbErr) ==
    IF ~present THEN "test has no Execute function"
    ELSE IF cbErr = "" THEN "" ELSE "execute failed"

\* a Teardown error returned when nothing else failed
afterTeardownFatal(retErr, cbErr) ==
    IF retErr = "" /\ cbErr # "" THEN "teardown failed" ELSE retErr

\* runTestLifecycle, runner.go:403-407: the deferred Teardown's error is
\* dropped; the value already returned stands
afterTeardown(retErr, cbErr) == retErr

\* what a step inside runTestLifecycle leaves alone
InsideLifecycle ==
    UNCHANGED << inputVars, config, phase, planVars, ctx, results, completedTests,
                 failedTestsList, workChan, chanClosed, disp, ex, seqIdx, runOut,
                 lifecycleCalls, attemptFails, metrics, wg, stop,
                 cancelledInFlight >>

\* runTestLifecycle, runner.go:395-408: Setup is called when set; its error
\* is returned at once, otherwise the Teardown (when set) is deferred
LifecycleSetup(e) ==
    /\ ex[e].pc = "lifecycle"
    /\ life[e].step = "setup"
    /\ LET t == ex[e].test
       IN  \E cbErr \in (IF callbacks[t].Setup THEN CallbackErrs ELSE {""}) :
             LET d == deferredAfterSetup(cbErr, callbacks[t].Teardown)
             IN  /\ callLog' = IF callbacks[t].Setup
                                THEN LoggedCall(callLog, t, "Setup", cbErr,
                                                testCtx(t), life[e].elapsed)
                                ELSE callLog
                 /\ life' = [life EXCEPT ![e].step = IF cbErr = "" THEN "execute"
                                                     ELSE IF d THEN "teardown"
                                                     ELSE "return",
                                         ![e].err = setupResult(cbErr),
                                         ![e].deferred = d]
    /\ InsideLifecycle

\* runTestLifecycle, runner.go:411-419: a missing Execute is an error,
\* otherwise Execute is called; then the function returns, through the
\* deferred Teardown when there is one
LifecycleExecute(e) ==
    /\ ex[e].pc = "lifecycle"
    /\ life[e].step = "execute"
    /\ LET t == ex[e].test
       IN  \E cbErr \in (IF callbacks[t].Execute THEN CallbackErrs ELSE {""}) :
             /\ callLog' = IF callbacks[t].Execute
                            THEN LoggedCall(callLog, t, "Execute", cbErr,
                                            testCtx(t), life[e].elapsed)
                            ELSE callLog
             /\ life' = [life EXCEPT ![e].step = IF life[e].deferred THEN "teardown"
                                                 ELSE "return",
                                     ![e].err = executeResult(callbacks[t].Execute, cbErr)]
    /\ InsideLifecycle

\* runTestLifecycle, runner.go:403-407: the deferred function calls Teardown
LifecycleTeardown(e) ==
    /\ ex[e].pc = "lifecycle"
    /\ life[e].step = "teardown"
    /\ \E cbErr \in CallbackErrs :
         /\ callLog' = LoggedCall(callLog, ex[e].test, "Teardown", cbErr,
                                  teardownCtx, life[e].elapsed)
         /\ life' = [life EXCEPT ![e].step = "return",
                                 ![e].err = afterTeardown(life[e].err, cbErr)]
    /\ InsideLifecycle

\* time passes inside runTestLifecycle: the test context made at
\* runner.go:391 is one tick older
TestClockTick(e) ==
    /\ ex[e].pc = "lifecycle"
    /\ life[e].step # "return"
    /\ life[e].elapsed <= MaxTaskTimeout
    /\ life' = [life EXCEPT ![e].elapsed = @ + 1]
    /\ UNCHANGED callLog
    /\ InsideLifecycle

\* runTestLifecycle hands its error to executeTest, runner.go:365-381
LifecycleReturn(e) ==
    /\ life[e].step = "return"
    /\ AttemptReturns(e, life[e].err = "")
    /\ callLog' = Logged(callLog, ex[e].test, "return", life[e].err)
    /\ life' = [life EXCEPT ![e] = LifeIdle]

\* the global timeout of the run context expires, runner.go:159; the tests
\* inside runTestLifecycle at that moment are remembered
GlobalTimeoutInFlight ==
    /\ phase \in {"constructed", "running"}
    /\ ctx = "live"
    /\ ctx' = "deadline exceeded"
    /\ cancelledInFlight' = InFlight
    /\ UNCHANGED << metrics, wg, stop >>
    /\ UNCHANGED << inputVars, lifeVars, config, phase, planVars, results, completedTests,
                    failedTestsList, workChan, chanClosed, disp, ex, seqIdx,
                    runOut, lifecycleCalls, attemptFails >>

\* recordResult, runner.go:438-453, of the result executeTest returned
RecordResult(e) ==
    /\ ex[e].pc = "record"
    /\ results' = Recorded(results, [TestID |-> ex[e].test, Status |-> ex[e].status,
                                      RetryCount |-> ex[e].retryCount,
                                      SkipReason |-> ""])
    /\ metrics' = counted(metrics, ex[e].status)
    /\ ex' = [ex EXCEPT ![e].pc = "mark"]
    /\ UNCHANGED << wg, stop, cancelledInFlight >>
    /\ UNCHANGED << inputVars, lifeVars, config, phase, planVars, ctx, completedTests,
                    failedTestsList, workChan, chanClosed, disp, seqIdx, runOut,
                    lifecycleCalls, attemptFails >>

\* a markTestCompleted whose write is lost
markTestCompletedLost(done, t) == done

\* markTestCompleted, runner.go:468-472: ee.completedTests[testID] = true
markTestCompleted(done, t) == done \cup {t}

\* markTestCompleted / markTestFailed, runner.go:467-479, and what follows
\* it: the next iteration or the FailFast return in the sequential loops
\* (runner.go:212-217, 264-270), the plan's marking in a worker
MarkEngine(e) ==
    /\ ex[e].pc = "mark"
    /\ completedTests' = IF markedAs(ex[e].status) = "completed"
                         THEN markTestCompleted(completedTests, ex[e].test)
                         ELSE completedTests
    /\ failedTestsList' = IF markedAs(ex[e].status) = "failed"
                          THEN failedTestsList \cup {ex[e].test} ELSE failedTestsList
    /\ IF e # 0
       THEN /\ ex' = [ex EXCEPT ![e].pc = "markplan"]
            /\ UNCHANGED << phase, runOut, ctx, seqIdx >>
       ELSE IF failFastStops(config.Mode, ex[e].status)
       THEN /\ phase' = "returned"
            /\ runOut' = Returned(results, FALSE, TestFailedErr(ex[e].test))
            /\ ctx' = Cancelled(ctx)
            /\ ex' = [ex EXCEPT ![0] = IdleExecutor]
            /\ UNCHANGED seqIdx
       ELSE /\ ex' = [ex EXCEPT ![0] = [IdleExecutor EXCEPT !.pc = "next"]]
            /\ seqIdx' = seqIdx + 1
            /\ UNCHANGED << phase, runOut, ctx >>
    /\ UNCHANGED << metrics, wg, stop, cancelledInFlight >>
    /\ UNCHANGED << inputVars, lifeVars, config, planVars, results, workChan, chanClosed,
                    disp, lifecycleCalls, attemptFails >>

\* plan.MarkCompleted / plan.MarkFailed by a worker, runner.go:302, 305,
\* 622-634; the worker then waits for the next item
MarkPlan(w) ==
    /\ w \in Workers
    /\ ex[w].pc = "markplan"
    /\ plan' = [plan EXCEPT
                  !.completed = IF markedAs(ex[w].status) = "completed"
                                THEN @ \cup {ex[w].test} ELSE @,
                  !.failed = IF markedAs(ex[w].status) = "failed"
                             THEN @ \cup {ex[w].test} ELSE @]
    /\ ex' = [ex EXCEPT ![w] = [IdleExecutor EXCEPT !.pc = "wait"]]
    /\ UNCHANGED << metrics, wg, stop, cancelledInFlight >>
    /\ UNCHANGED << inputVars, lifeVars, config, phase, err, ordered, orderErr, ctx, results,
                    completedTests, failedTestsList, workChan, chanClosed, disp,
                    seqIdx, runOut, lifecycleCalls, attemptFails >>

\* worker, runner.go:284: an item is received from the work channel
WorkerReceive(w) ==
    /\ w \in Workers
    /\ ex[w].pc = "wait"
    /\ workChan # << >>
    /\ ex' = [ex EXCEPT ![w].pc = "got", ![w].test = Head(workChan)]
    /\ workChan' = Tail(workChan)
    /\ UNCHANGED << metrics, wg, stop, cancelledInFlight >>
    /\ UNCHANGED << inputVars, lifeVars, config, phase, planVars, ctx, results,
                    completedTests, failedTestsList, chanClosed, disp, seqIdx,
                    runOut, lifecycleCalls, attemptFails >>

\* worker, runner.go:284, 282: the channel is closed and drained, the range
\* loop ends and the worker is done
WorkerExit(w) ==
    /\ w \in Workers
    /\ ex[w].pc = "wait"
    /\ workChan = << >>
    /\ chanClosed
    /\ ex' = [ex EXCEPT ![w] = [IdleExecutor EXCEPT !.pc = "exited"]]
    /\ wg' = wg - 1
    /\ UNCHANGED << metrics, stop, cancelledInFlight >>
    /\ UNCHANGED << inputVars, lifeVars, config, phase, planVars, ctx, results,
                    completedTests, failedTestsList, workChan, chanClosed, disp,
                    seqIdx, runOut, lifecycleCalls, attemptFails >>

\* worker, runner.go:285-297: the received test is skipped and the worker
\* returns when the context is done, skipped when shouldRunTest refuses it,
\* and handed to executeTest otherwise
WorkerCheck(w) ==
    /\ w \in Workers
    /\ ex[w].pc = "got"
    /\ IF ctxDone
       THEN /\ results' = Recorded(results, SkipResult(ex[w].test, "context canceled"))
            /\ metrics' = counted(metrics, "skipped")
            /\ ex' = [ex EXCEPT ![w] = [IdleExecutor EXCEPT !.pc = "exited"]]
            /\ wg' = wg - 1
       ELSE IF ~shouldRunTest(Dependencies[ex[w].test], completedTests, failedTestsList)
       THEN /\ results' = Recorded(results, SkipResult(ex[w].test, "dependencies not met"))
            /\ metrics' = counted(metrics, "skipped")
            /\ ex' = [ex EXCEPT ![w] = [IdleExecutor EXCEPT !.pc = "wait"]]
            /\ UNCHANGED wg
       ELSE /\ ex' = [ex EXCEPT ![w] = [pc |-> "attempt", test |-> ex[w].test,
                                        attempt |-> 0, retryCount |-> 0,
                                        status |-> "running"]]
            /\ UNCHANGED << results, metrics, wg >>
    /\ UNCHANGED << stop, cancelledInFlight >>
    /\ UNCHANGED << inputVars, lifeVars, config, phase, planVars, ctx, completedTests,
                    failedTestsList, workChan, chanClosed, disp, seqIdx, runOut,
                    lifecycleCalls, attemptFails >>

\* a dispatcher that forgets what it has sent
notYetDispatchedForgetful(dispatched, t) == TRUE

\* dispatchTests, runner.go:333: !dispatched[test.ID]
notYetDispatched(dispatched, t) == t \notin dispatched

\* dispatchTests, runner.go:314-333: one pass of the loop up to the first
\* push.  dispatched is local to the dispatcher, so the ready tests it will
\* push are known here; the iterations of the loop over ready that push
\* nothing are taken in this step (a pass that pushes nothing leaves the
\* dispatcher where it is: it polls again at once)
DispatchPoll ==
    /\ disp.pc = "top"
    /\ IF ctxDone
       THEN disp' = [disp EXCEPT !.pc = "closing"]
       ELSE LET ready  == GetReadyTests(plan)
                toPush == SelectSeq(ready, LAMBDA t : notYetDispatched(disp.dispatched, t))
            IN  IF Len(ready) = 0
                THEN IF Cardinality(disp.dispatched) = NumTests
                     THEN disp' = [disp EXCEPT !.pc = "closing"]
                     ELSE disp' = [disp EXCEPT !.pc = "sleep"]
                ELSE IF toPush = << >>
                     THEN disp' = disp
                     ELSE disp' = [disp EXCEPT !.pc = "push", !.ready = toPush]
    /\ UNCHANGED << metrics, wg, stop, cancelledInFlight >>
    /\ UNCHANGED << inputVars, lifeVars, config, phase, planVars, ctx, results,
                    completedTests, failedTestsList, workChan, chanClosed, ex,
                    seqIdx, runOut, lifecycleCalls, attemptFails >>

\* dispatchTests, runner.go:328-329: the 50ms sleep is over
DispatchWake ==
    /\ disp.pc = "sleep"
    /\ disp' = [disp EXCEPT !.pc = "top"]
    /\ UNCHANGED << metrics, wg, stop, cancelledInFlight >>
    /\ UNCHANGED << inputVars, lifeVars, config, phase, planVars, ctx, results,
                    completedTests, failedTestsList, workChan, chanClosed, ex,
                    seqIdx, runOut, lifecycleCalls, attemptFails >>

\* a dispatcher that never notes what it sent
markDispatchedNot(dispatched, t) == dispatched

\* dispatchTests, runner.go:334: dispatched[test.ID] = true
markDispatched(dispatched, t) == dispatched \cup {t}

\* dispatchTests, runner.go:332-337: the next push of the loop over ready; a
\* send blocks while the channel buffer (capacity len(tests)) is full
DispatchPush ==
    /\ disp.pc = "push"
    /\ LET test == Head(disp.ready)
           rest == Tail(disp.ready)
       IN  /\ Len(workChan) < NumTests
           /\ workChan' = Append(workChan, test)
           /\ disp' = [pc |-> IF rest = << >> THEN "top" ELSE "push",
                       dispatched |-> markDispatched(disp.dispatched, test),
                       ready |-> rest]
    /\ UNCHANGED << metrics, wg, stop, cancelledInFlight >>
    /\ UNCHANGED << inputVars, lifeVars, config, phase, planVars, ctx, results,
                    completedTests, failedTestsList, chanClosed, ex, seqIdx,
                    runOut, lifecycleCalls, attemptFails >>

\* a close issued while dispatchTests is still running
dispatchTestsRunning(d) == d.pc \in {"top", "sleep", "push", "closing"}

\* runner.go:231-233: close(ee.workChan) follows the return of dispatchTests
dispatchTestsReturned(d) == d.pc = "closing"

\* the dispatcher goroutine after dispatchTests returned, runner.go:233
DispatchClose ==
    /\ dispatchTestsReturned(disp)
    /\ chanClosed' = TRUE
    /\ disp' = [disp EXCEPT !.pc = "done"]
    /\ UNCHANGED << metrics, wg, stop, cancelledInFlight >>
    /\ UNCHANGED << inputVars, lifeVars, config, phase, planVars, ctx, results,
                    completedTests, failedTestsList, workChan, ex, seqIdx, runOut,
                    lifecycleCalls, attemptFails >>

\* runParallel, runner.go:237-239: every worker is done, Run returns
RunReturn ==
    /\ phase = "running"
    /\ config.Mode \in {"parallel", "comprehensive"}
    /\ wgWait(wg)
    /\ phase' = "returned"
    /\ runOut' = Returned(results, FALSE, NoErr)
    /\ ctx' = Cancelled(ctx)
    /\ UNCHANGED << metrics, wg, stop, cancelledInFlight >>
    /\ UNCHANGED << inputVars, lifeVars, config, planVars, results, completedTests,
                    failedTestsList, workChan, chanClosed, disp, ex, seqIdx,
                    lifecycleCalls, attemptFails >>

\* Run with a mode that is none of the four, runner.go:191-192 (the deferred
\* cancel runs on this return too)
RunUnknownMode ==
    /\ phase = "constructed"
    /\ config.Mode \notin Modes
    /\ phase' = "returned"
    /\ runOut' = Returned(NoResults, TRUE, UnknownModeErr)
    /\ ctx' = Cancelled(ctx)
    /\ UNCHANGED << metrics, wg, stop, cancelledInFlight >>
    /\ UNCHANGED << inputVars, lifeVars, config, planVars, results, completedTests,
                    failedTestsList, workChan, chanClosed, disp, ex, seqIdx,
                    lifecycleCalls, attemptFails >>

\* the workers of the pool beyond the MaxWorkersIn that are followed step by
\* step: wg counts them too.  They stay in the receive of runner.go:284 while
\* the context is live (the followed workers take every item then)
OtherWorkers == wg - Cardinality({ w \in Workers : ex[w].pc \notin {"off", "exited"} })

\* worker, runner.go:284, 282: one of the other workers finds the channel
\* closed and drained and is done
OtherWorkerExit ==
    /\ OtherWorkers > 0
    /\ workChan = << >>
    /\ chanClosed
    /\ wg' = wg - 1
    /\ UNCHANGED << metrics, stop, cancelledInFlight >>
    /\ UNCHANGED << inputVars, lifeVars, config, phase, planVars, ctx, results,
                    completedTests, failedTestsList, workChan, chanClosed, disp,
                    ex, seqIdx, runOut, lifecycleCalls, attemptFails >>

\* worker, runner.go:284-288: one of the other workers receives an item with
\* the context done, skips it and returns
OtherWorkerSkip ==
    /\ OtherWorkers > 0
    /\ workChan # << >>
    /\ ctxDone
    /\ workChan' = Tail(workChan)
    /\ results' = Recorded(results, SkipResult(Head(workChan), "context canceled"))
    /\ metrics' = counted(metrics, "skipped")
    /\ wg' = wg - 1
    /\ UNCHANGED << stop, cancelledInFlight >>
    /\ UNCHANGED << inputVars, lifeVars, config, phase, planVars, ctx, completedTests,
                    failedTestsList, chanClosed, disp, ex, seqIdx, runOut,
                    lifecycleCalls, attemptFails >>

\* Stop is called while Run is in progress or after it, runner.go:482-491:
\* the goroutine is started and the caller waits in the select
Stop ==
    /\ phase \in {"running", "returned"}
    /\ stop.caller = "off"
    /\ stop' = [caller |-> "select", helper |-> "cancel"]
    /\ UNCHANGED << metrics, wg, cancelledInFlight >>
    /\ UNCHANGED << inputVars, lifeVars, config, phase, planVars, ctx, results,
                    completedTests, failedTestsList, workChan, chanClosed, disp,
                    ex, seqIdx, runOut, lifecycleCalls, attemptFails >>

\* Stop's goroutine, runner.go:486: ee.cancel()
StopCancel ==
    /\ stop.helper = "cancel"
    /\ ctx' = Cancelled(ctx)
    /\ stop' = [stop EXCEPT !.helper = "wait"]
    /\ UNCHANGED << metrics, wg, cancelledInFlight >>
    /\ UNCHANGED << inputVars, lifeVars, config, phase, planVars, results, completedTests,
                    failedTestsList, workChan, chanClosed, disp, ex, seqIdx,
                    runOut, lifecycleCalls, attemptFails >>

\* Stop's goroutine, runner.go:487-488: ee.wg.Wait() returns, done is closed
StopWait ==
    /\ stop.helper = "wait"
    /\ wgWait(wg)
    /\ stop' = [stop EXCEPT !.helper = "done"]
    /\ UNCHANGED << metrics, wg, cancelledInFlight >>
    /\ UNCHANGED << inputVars, lifeVars, config, phase, planVars, ctx, results,
                    completedTests, failedTestsList, workChan, chanClosed, disp,
                    ex, seqIdx, runOut, lifecycleCalls, attemptFails >>

\* Stop's select, runner.go:492-493: done is closed, Stop returns nil
StopReturn ==
    /\ stop.caller = "select"
    /\ stop.helper = "done"
    /\ stop' = [stop EXCEPT !.caller = "nil"]
    /\ UNCHANGED << metrics, wg, cancelledInFlight >>
    /\ UNCHANGED << inputVars, lifeVars, config, phase, planVars, ctx, results,
                    completedTests, failedTestsList, workChan, chanClosed, disp,
                    ex, seqIdx, runOut, lifecycleCalls, attemptFails >>

\* Stop's select, runner.go:494-495: the timer fires, Stop returns the
\* shutdown-timeout error (its goroutine goes on)
StopTimeout ==
    /\ stop.caller = "select"
    /\ stop' = [stop EXCEPT !.caller = "shutdown timeout"]
    /\ UNCHANGED << metrics, wg, cancelledInFlight >>
    /\ UNCHANGED << inputVars, lifeVars, config, phase, planVars, ctx, results,
                    completedTests, failedTestsList, workChan, chanClosed, disp,
                    ex, seqIdx, runOut, lifecycleCalls, attemptFails >>

Next ==
    \/ NewExecutionEngine
    \/ GlobalTimeout
    \/ RunSequential
    \/ RunParallel
    \/ SeqLoop
    \/ \E e \in Executors : AttemptStart(e)
    \/ \E e \in Executors : AttemptEnd(e)
    \/ \E e \in Executors : RecordResult(e)
    \/ \E e \in Executors : MarkEngine(e)
    \/ \E w \in Workers : MarkPlan(w)
    \/ \E w \in Workers : WorkerReceive(w)
    \/ \E w \in Workers : WorkerExit(w)
    \/ \E w \in Workers : WorkerCheck(w)
    \/ DispatchPoll
    \/ DispatchWake
    \/ DispatchPush
    \/ DispatchClose
    \/ RunReturn

Spec == Init /\ [][Next]_vars


\* ------------------------------------- the concurrent modes, with fairness
\* Parallel and Comprehensive runs of test sets whose dependencies point to
\* earlier tests of the list (every acyclic graph is one of these up to the
\* order of the list), retries enabled
ParInit ==
    /\ Dependencies \in [TestIDs -> SUBSET TestIDs]
    /\ \A t \in TestIDs : \A d \in Dependencies[t] : d < t
    /\ \E r \in 0..MaxRetriesIn : MaxRetries = [t \in TestIDs |-> r]
    /\ config \in [Mode : {"parallel", "comprehensive"}, MaxWorkers : 1..MaxWorkersIn,
                   EnableRetry : {TRUE}]
    /\ tests = SortedSeq(TestIDs)
    /\ configIn = config
    /\ phase = "new"
    /\ plan = NoPlan
    /\ err = NoErr
    /\ ordered = << >>
    /\ orderErr = NoErr
    /\ EngineIdle
    /\ callbacks = [t \in TestIDs |-> AllPresent]
    /\ Timeout = NoTaskTimeouts
    /\ TestTimeout = MaxTaskTimeout + 1
    /\ Priority = SamePriority
    /\ NoBackoff

\* the steps of the caller's goroutine
MainStep == NewExecutionEngine \/ RunParallel \/ RunReturn

\* the steps of worker w
WorkerStep(w) ==
    \/ WorkerReceive(w)
    \/ WorkerExit(w)
    \/ WorkerCheck(w)
    \/ AttemptStart(w)
    \/ AttemptEnd(w)
    \/ RecordResult(w)
    \/ MarkEngine(w)
    \/ MarkPlan(w)

\* the steps of the dispatcher goroutine
DispatcherStep == DispatchPoll \/ DispatchWake \/ DispatchPush \/ DispatchClose

ParNext ==
    \/ MainStep
    \/ GlobalTimeout
    \/ \E w \in Workers : WorkerStep(w)
    \/ DispatcherStep

\* every goroutine that can take a step eventually takes one, and every
\* callback returns; the global timeout may or may not expire
LiveSpec ==
    /\ ParInit
    /\ [][ParNext]_vars
    /\ WF_vars(MainStep)
    /\ WF_vars(DispatcherStep)
    /\ \A w \in Workers : WF_vars(WorkerStep(w))



\* ------------------------------------------------- the sequential modes
\* Sequential and FailFast runs, every test with its own retry budget
SeqInit ==
    /\ Dependencies \in [TestIDs -> SUBSET TestIDs]
    /\ \A t \in TestIDs : \A d \in Dependencies[t] : d < t
    /\ MaxRetries \in [TestIDs -> 0..MaxRetriesDeep]
    /\ config \in [Mode : {"sequential", "fail-fast"}, MaxWorkers : {1},
                   EnableRetry : BOOLEAN]
    /\ tests = SortedSeq(TestIDs)
    /\ configIn = config
    /\ phase = "new"
    /\ plan = NoPlan
    /\ err = NoErr
    /\ ordered = << >>
    /\ orderErr = NoErr
    /\ EngineIdle
    /\ callbacks = [t \in TestIDs |-> AllPresent]
    /\ Timeout = NoTaskTimeouts
    /\ TestTimeout = MaxTaskTimeout + 1
    /\ Priority = SamePriority
    /\ NoBackoff

SeqNext ==
    \/ NewExecutionEngine
    \/ GlobalTimeout
    \/ RunSequential
    \/ SeqLoop
    \/ AttemptStart(0)
    \/ AttemptEnd(0)
    \/ RecordResult(0)
    \/ MarkEngine(0)

SeqSpec == SeqInit /\ [][SeqNext]_vars

\* ---------------------------------------------- Stop during a Parallel run
\* Parallel runs (dependencies pointing to earlier tests, retries enabled)
\* during or after which Stop may be called once
StopInit ==
    /\ Dependencies \in [TestIDs -> SUBSET TestIDs]
    /\ \A t \in TestIDs : \A d \in Dependencies[t] : d < t
    /\ \E r \in 0..MaxRetriesIn : MaxRetries = [t \in TestIDs |-> r]
    /\ config \in [Mode : {"parallel"}, MaxWorkers : 1..MaxWorkersIn,
                   EnableRetry : {TRUE}]
    /\ tests = SortedSeq(TestIDs)
    /\ configIn = config
    /\ phase = "new"
    /\ plan = NoPlan
    /\ err = NoErr
    /\ ordered = << >>
    /\ orderErr = NoErr
    /\ EngineIdle
    /\ callbacks = [t \in TestIDs |-> AllPresent]
    /\ Timeout = NoTaskTimeouts
    /\ TestTimeout = MaxTaskTimeout + 1
    /\ Priority = SamePriority
    /\ NoBackoff

\* the steps of the goroutine Stop starts
StopHelperStep == StopCancel \/ StopWait

StopNext ==
    \/ MainStep
    \/ \E w \in Workers : WorkerStep(w)
    \/ DispatcherStep
    \/ Stop
    \/ StopHelperStep
    \/ StopReturn
    \/ StopTimeout

\* every goroutine that can take a step eventually takes one, and every
\* callback returns; whether and when Stop is called, and whether its timer
\* fires, is left open (the global timeout does not expire in these runs)
StopSpec ==
    /\ StopInit
    /\ [][StopNext]_vars
    /\ WF_vars(MainStep)
    /\ WF_vars(DispatcherStep)
    /\ \A w \in Workers : WF_vars(WorkerStep(w))
    /\ WF_vars(StopHelperStep)

\* ------------------------------------- callbacks that observe the context
\* runs in every mode whose callbacks return an error once the run context is
\* cancelled; retries enabled
CancelInit ==
    /\ Dependencies \in [TestIDs -> SUBSET TestIDs]
    /\ \A t \in TestIDs : \A d \in Dependencies[t] : d < t
    /\ \E r \in 0..MaxRetriesIn : MaxRetries = [t \in TestIDs |-> r]
    /\ config \in [Mode : Modes, MaxWorkers : 1..MaxWorkersIn, EnableRetry : {TRUE}]
    /\ tests = SortedSeq(TestIDs)
    /\ configIn = config
    /\ phase = "new"
    /\ plan = NoPlan
    /\ err = NoErr
    /\ ordered = << >>
    /\ orderErr = NoErr
    /\ EngineIdle
    /\ callbacks = [t \in TestIDs |-> AllPresent]
    /\ Timeout = NoTaskTimeouts
    /\ TestTimeout = MaxTaskTimeout + 1
    /\ Priority = SamePriority
    /\ NoBackoff

CancelNext ==
    \/ NewExecutionEngine
    \/ GlobalTimeoutInFlight
    \/ RunSequential
    \/ RunParallel
    \/ SeqLoop
    \/ \E e \in Executors : AttemptStart(e)
    \/ \E e \in Executors : AttemptEndObserving(e)
    \/ \E e \in Executors : RecordResult(e)
    \/ \E e \in Executors : MarkEngine(e)
    \/ \E w \in Workers : MarkPlan(w)
    \/ \E w \in Workers : WorkerReceive(w)
    \/ \E w \in Workers : WorkerExit(w)
    \/ \E w \in Workers : WorkerCheck(w)
    \/ DispatchPoll
    \/ DispatchWake
    \/ DispatchPush
    \/ DispatchClose
    \/ RunReturn

CancelSpec == CancelInit /\ [][CancelNext]_vars

\* ------------------------------------------- every RunConfig, every list
\* MaxWorkers values below, inside and above the range 1..MaxWorkersCap
WorkerInputs == (-1..MaxWorkersIn) \cup ((MaxWorkersCap - 1)..(MaxWorkersCap + 1))

\* test sets without dependencies, with one dependency, with a cycle
ConfigGraphs ==
    { [t \in TestIDs |-> {}],
      [t \in TestIDs |-> IF t = 2 THEN {1} ELSE {}],
      [t \in TestIDs |-> IF t = 1 THEN {2} ELSE IF t = 2 THEN {1} ELSE {}] }

\* an empty or a full test list, a mode that may be none of the four, a
\* MaxWorkers that may be out of range
ConfigInit ==
    /\ tests \in {<< >>, SortedSeq(TestIDs)}
    /\ Dependencies \in ConfigGraphs
    /\ tests = << >> => Dependencies = [t \in TestIDs |-> {}]
    /\ MaxRetries = [t \in TestIDs |-> 0]
    /\ config \in [Mode : Modes \cup {"unknown"}, MaxWorkers : WorkerInputs,
                   EnableRetry : {FALSE}]
    /\ configIn = config
    /\ phase = "new"
    /\ plan = NoPlan
    /\ err = NoErr
    /\ ordered = << >>
    /\ orderErr = NoErr
    /\ EngineIdle
    /\ callbacks = [t \in TestIDs |-> AllPresent]
    /\ Timeout = NoTaskTimeouts
    /\ TestTimeout = MaxTaskTimeout + 1
    /\ Priority = SamePriority
    /\ NoBackoff

ConfigNext ==
    \/ Next
    \/ RunUnknownMode
    \/ OtherWorkerExit
    \/ OtherWorkerSkip

ConfigSpec == ConfigInit /\ [][ConfigNext]_vars

\* ------------------------------ the callbacks inside runTestLifecycle
\* which callbacks the tests have: the same set for every test
CallbackSets ==
    { [t \in TestIDs |-> c] : c \in [Setup : BOOLEAN, Execute : BOOLEAN, Teardown : BOOLEAN] }

\* tests with any set of callbacks, independent or with one dependency, run
\* one by one with or without a retry, or by the workers without a retry
LifeInit ==
    /\ Dependencies \in { [t \in TestIDs |-> {}],
                          [t \in TestIDs |-> IF t = 2 THEN {1} ELSE {}] }
    /\ \E r \in 0..MaxRetriesIn : MaxRetries = [t \in TestIDs |-> r]
    /\ config \in [Mode : {"sequential", "parallel"}, MaxWorkers : {MaxWorkersIn},
                   EnableRetry : {TRUE}]
    /\ tests = SortedSeq(TestIDs)
    /\ configIn = config
    /\ callbacks \in CallbackSets
    /\ Timeout = NoTaskTimeouts
    /\ TestTimeout = MaxTaskTimeout + 1
    /\ Priority = SamePriority
    /\ NoBackoff
    /\ config.Mode = "parallel" => MaxRetries = [t \in TestIDs |-> 0]
    /\ phase = "new"
    /\ plan = NoPlan
    /\ err = NoErr
    /\ ordered = << >>
    /\ orderErr = NoErr
    /\ EngineIdle

LifeStep(e) ==
    \/ AttemptStart(e)
    \/ LifecycleSetup(e)
    \/ LifecycleExecute(e)
    \/ LifecycleTeardown(e)
    \/ LifecycleReturn(e)
    \/ RecordResult(e)
    \/ MarkEngine(e)

LifeNext ==
    \/ NewExecutionEngine
    \/ RunSequential
    \/ RunParallel
    \/ SeqLoop
    \/ \E e \in Executors : LifeStep(e)
    \/ \E w \in Workers : MarkPlan(w) \/ WorkerReceive(w) \/ WorkerExit(w) \/ WorkerCheck(w)
    \/ DispatcherStep
    \/ RunReturn

LifecycleSpec == LifeInit /\ [][LifeNext]_vars

\* ------------------------- the contexts the callbacks are handed
\* independent tests without retry, run one by one or by the workers; the
\* first test has all three callbacks and sets no Timeout, a negative one or
\* a positive one, the others have no callback and no Timeout
ContextInit ==
    /\ Dependencies = [t \in TestIDs |-> {}]
    /\ MaxRetries = [t \in TestIDs |-> 0]
    /\ config \in [Mode : {"sequential", "parallel"}, MaxWorkers : {MaxWorkersIn},
                   EnableRetry : {FALSE}]
    /\ tests = SortedSeq(TestIDs)
    /\ configIn = config
    /\ callbacks = [t \in TestIDs |-> IF t = 1 THEN AllPresent ELSE NonePresent]
    /\ \E k \in -1..MaxTaskTimeout : Timeout = [t \in TestIDs |-> IF t = 1 THEN k ELSE 0]
    /\ TestTimeout = MaxTaskTimeout + 1
    /\ Priority = SamePriority
    /\ NoBackoff
    /\ phase = "new"
    /\ plan = NoPlan
    /\ err = NoErr
    /\ ordered = << >>
    /\ orderErr = NoErr
    /\ EngineIdle

ContextNext ==
    \/ NewExecutionEngine
    \/ GlobalTimeout
    \/ RunSequential
    \/ RunParallel
    \/ SeqLoop
    \/ \E e \in Executors : LifeStep(e) \/ TestClockTick(e)
    \/ \E w \in Workers : MarkPlan(w) \/ WorkerReceive(w) \/ WorkerExit(w) \/ WorkerCheck(w)
    \/ DispatchPoll \/ DispatchPush \/ DispatchClose
    \/ RunReturn

ContextSpec == ContextInit /\ [][ContextNext]_vars

\* --------------------------------------- the backoff sleep on its own
\* an attempt of executeTest's loop and a random number
BackoffInit ==
    /\ Dependencies = [t \in TestIDs |-> {}]
    /\ MaxRetries = [t \in TestIDs |-> MaxAttemptIn]
    /\ config = [Mode |-> "sequential", MaxWorkers |-> 1, EnableRetry |-> TRUE]
    /\ tests = SortedSeq(TestIDs)
    /\ configIn = config
    /\ callbacks = [t \in TestIDs |-> AllPresent]
    /\ Timeout = NoTaskTimeouts
    /\ TestTimeout = MaxTaskTimeout + 1
    /\ Priority = SamePriority
    /\ sleepIn \in [attempt : 0..MaxAttemptIn, rnd : RndSamples]
    /\ slept = NotSlept
    /\ phase = "new"
    /\ plan = NoPlan
    /\ err = NoErr
    /\ ordered = << >>
    /\ orderErr = NoErr
    /\ EngineIdle

\* executeTest, runner.go:355-363: before a retry the backoff and the jitter
\* are computed and slept; before the first attempt nothing is
RetrySleep ==
    /\ slept.state = "none"
    /\ slept' = IF sleepIn.attempt > 0
                THEN [state |-> "slept", arg |-> sleepArg(sleepIn.attempt, sleepIn.rnd)]
                ELSE [state |-> "not slept", arg |-> << >>]
    /\ UNCHANGED << Dependencies, MaxRetries, tests, configIn, callbacks, Timeout,
                    TestTimeout, Priority, sleepIn, config, phase, planVars,
                    engineVars >>

BackoffSpec == BackoffInit /\ [][RetrySleep]_vars

\* ---------------------------------------------- properties of the engine
Terminal == {"passed", "failed", "skipped"}

\* the tests an executor is inside runTestLifecycle of
InLifecycle == { e \in Executors : ex[e].pc = "lifecycle" }

\* the tests executeTest is running for (from its call to its return)
Executing(t) == \E e \in Executors : ex[e].test = t /\ ex[e].pc \in {"attempt", "lifecycle"}

HasResult(t, status) == \E i \in 1..Len(results[t]) : results[t][i].Status = status

OneResultEach(statuses) ==
    \A t \in TestIDs : Len(results[t]) = 1 /\ results[t][1].Status \in statuses

AnyAttemptFailed == \E t \in TestIDs : attemptFails[t] > 0

Concurrent == config.Mode \in {"parallel", "comprehensive"}

\* C7: in Parallel and Comprehensive modes, unless the global timeout
\* expires, the dispatcher pushes every test, closes the queue and Run
\* returns, whatever the outcomes of the tests.
C7_DispatchCompletes ==
    (phase = "running" /\ Concurrent) ~>
        \/ ctx = "deadline exceeded"
        \/ /\ phase = "returned"
           /\ chanClosed
           /\ disp.dispatched = TestIDs

\* C8: in Parallel mode, when no attempt fails and the global timeout does
\* not expire, Run returns with exactly one result per test, all Passed; and
\* no test is inside executeTest unless every dependency of it has left
\* executeTest with a recorded Passed result.
C8_AllPassInDependencyOrder ==
    /\ [](config.Mode = "parallel" =>
            \A t \in TestIDs : Executing(t) =>
                \A d \in Dependencies[t] : HasResult(d, "passed") /\ ~Executing(d))
    /\ (phase = "running" /\ config.Mode = "parallel") ~>
            \/ ctx = "deadline exceeded"
            \/ AnyAttemptFailed
            \/ (phase = "returned" /\ OneResultEach({"passed"}))

\* the scenario A, B (dep A), C (dep A) with two workers has returned with
\* three Passed results and no timeout
C8_Witness ==
    /\ config.Mode = "parallel"
    /\ config.MaxWorkers = 2
    /\ Dependencies[1] = {} /\ Dependencies[2] = {1} /\ Dependencies[3] = {1}
    /\ phase = "returned"
    /\ ctx = "canceled"
    /\ OneResultEach({"passed"})


DependencyReasons == {"dependencies failed", "dependencies not met"}

\* C4: in Sequential, Parallel and Comprehensive modes, when Run has
\* returned, a test that depends on a dependency-free test whose result is
\* Failed has a Skipped result with a dependency reason and was never run.
C4_FailedDependencySkips ==
    (phase = "returned" /\ config.Mode \in {"sequential", "parallel", "comprehensive"}) =>
        \A a, b \in TestIDs :
            (Dependencies[a] = {} /\ HasResult(a, "failed") /\ a \in Dependencies[b]) =>
                /\ \E i \in 1..Len(results[b]) :
                        /\ results[b][i].Status = "skipped"
                        /\ results[b][i].SkipReason \in DependencyReasons
                /\ lifecycleCalls[b] = 0

\* C5: in Sequential, Parallel and Comprehensive modes, when Run has
\* returned (the global timeout not having expired), every submitted test
\* has exactly one result, with a terminal status.
C5_OneTerminalResultEach ==
    (/\ phase = "returned"
     /\ config.Mode \in {"sequential", "parallel", "comprehensive"}
     /\ ctx # "deadline exceeded") =>
        OneResultEach(Terminal)

\* C6: in every mode a test's lifecycle is entered only when every one of
\* its dependencies has a recorded Passed result, and none of them is
\* Failed, Skipped or still inside executeTest.
C6_StartOnlyAfterDependenciesPassed ==
    \A t \in TestIDs : (lifecycleCalls[t] > 0 \/ Executing(t)) =>
        \A d \in Dependencies[t] :
            /\ HasResult(d, "passed")
            /\ ~HasResult(d, "failed")
            /\ ~HasResult(d, "skipped")
            /\ ~Executing(d)

\* a test with a dependency is inside its lifecycle
C6_Witness ==
    \E e \in InLifecycle : Dependencies[ex[e].test] # {}

\* the attempts executeTest may make for test t, as the claim states it
AttemptBudget(t) == IF config.EnableRetry THEN 1 + MaxRetries[t] ELSE 1

\* C9: executeTest makes at most 1 + MaxRetries attempts with retries
\* enabled and exactly one with retries disabled; a Passed result follows
\* the first attempt without error, its RetryCount the number of failed
\* attempts before it; a Failed result follows only when every attempt of
\* the budget failed.
C9_RetryAccounting ==
    \A t \in TestIDs :
        /\ lifecycleCalls[t] <= AttemptBudget(t)
        /\ \A i \in 1..Len(results[t]) :
              LET r == results[t][i] IN
              /\ r.Status = "passed" =>
                    /\ lifecycleCalls[t] = attemptFails[t] + 1
                    /\ r.RetryCount = attemptFails[t]
              /\ r.Status = "failed" =>
                    /\ lifecycleCalls[t] = AttemptBudget(t)
                    /\ attemptFails[t] = lifecycleCalls[t]

\* a test with MaxRetries = 2 failed twice, then passed: RetryCount is 2
C9_Witness ==
    \E t \in TestIDs :
        /\ config.EnableRetry
        /\ MaxRetries[t] = 2
        /\ attemptFails[t] = 2
        /\ Len(results[t]) = 1
        /\ results[t][1].Status = "passed"
        /\ results[t][1].RetryCount = 2

\* C10: in Parallel and Comprehensive modes no more than MaxWorkers (as
\* clamped by NewExecutionEngine) tests are inside their lifecycle at once.
C10_AtMostMaxWorkersRunning ==
    (phase # "new" /\ Concurrent) =>
        /\ config.MaxWorkers \in 1..MaxWorkersCap
        /\ Cardinality(InLifecycle) <= config.MaxWorkers

\* two workers are inside a lifecycle at once, MaxWorkers being 2
C10_Witness ==
    /\ Concurrent
    /\ config.MaxWorkers = 2
    /\ Cardinality(InLifecycle) = 2

\* C11: in FailFast mode, once a test's result is Failed, no later test of
\* the order has a lifecycle call or a result, every earlier test has its one
\* result (the order being the one Sequential mode uses), and Run returns
\* (its next step) the results recorded so far with an error naming the
\* failed test.
C11_FailFastStopsAtFirstFailure ==
    config.Mode = "fail-fast" =>
        \A t \in TestIDs : HasResult(t, "failed") =>
            /\ Len(results[t]) = 1
            /\ \A u \in TestIDs :
                  /\ IndexOf(ordered, u) > IndexOf(ordered, t) =>
                        (lifecycleCalls[u] = 0 /\ results[u] = << >>)
                  /\ IndexOf(ordered, u) < IndexOf(ordered, t) =>
                        (Len(results[u]) = 1 /\ results[u][1].Status # "failed")
            /\ phase = "returned" =>
                  /\ runOut.err = TestFailedErr(t)
                  /\ ~runOut.nilResults
                  /\ runOut.results = results
            /\ phase # "returned" => (ex[0].pc = "mark" /\ ex[0].test = t)

\* FailFast returned after the second test failed: the first has passed, the
\* third was never touched
C11_Witness ==
    /\ config.Mode = "fail-fast"
    /\ phase = "returned"
    /\ ordered = << 1, 2, 3 >>
    /\ HasResult(1, "passed")
    /\ HasResult(2, "failed")
    /\ results[3] = << >> /\ lifecycleCalls[3] = 0
    /\ runOut.err = TestFailedErr(2)

SkippedFor(t, reasons) ==
    \E i \in 1..Len(results[t]) :
        results[t][i].Status = "skipped" /\ results[t][i].SkipReason \in reasons

\* C12: in Parallel and Comprehensive modes, when Run has returned after
\* the run context was cancelled by the global timeout, every test whose
\* lifecycle was never started (and that was not skipped for its
\* dependencies) has a Skipped result with reason "context canceled".
C12_CancelSkipsEveryUnstartedTest ==
    (phase = "returned" /\ Concurrent /\ ctx = "deadline exceeded") =>
        \A t \in TestIDs :
            (lifecycleCalls[t] = 0 /\ ~SkippedFor(t, DependencyReasons)) =>
                SkippedFor(t, {"context canceled"})

\* C13: in Sequential mode, when the loop reaches a test with the run
\* context already cancelled, the step of the loop records the test as
\* Skipped and does not enter executeTest for it.
C13_SequentialSkipsAfterCancel ==
    [][(/\ config.Mode = "sequential"
        /\ phase = "running"
        /\ ctxDone
        /\ ex[0].pc = "next"
        /\ seqIdx <= Len(ordered)) =>
            /\ ex'[0].pc # "attempt"
            /\ \E i \in 1..Len(results'[ordered[seqIdx]]) :
                   results'[ordered[seqIdx]][i].Status = "skipped"]_vars

\* C14: an empty test list, a circular dependency and an unknown execution
\* mode each make NewExecutionEngine return an error: construction ends
\* rejected, so Run is never called and no callback is invoked.
C14_ConstructionReportsBadInput ==
    (/\ phase # "new"
     /\ \/ Len(tests) = 0
        \/ Cyclic(Dependencies)
        \/ config.Mode \notin Modes) =>
        /\ phase = "rejected"
        /\ err # NoErr
        /\ ~runOut.returned
        /\ \A t \in TestIDs : lifecycleCalls[t] = 0

\* C19: no step of NewExecutionEngine or Run changes a field of the caller's
\* RunConfig or of a submitted Test.
C19_CallerValuesUnchanged ==
    [][/\ config' = config
       /\ Dependencies' = Dependencies
       /\ MaxRetries' = MaxRetries
       /\ tests' = tests]_vars

\* RunConfig.MaxWorkers as the caller set it, brought into 1..100
ClampedInput ==
    IF configIn.MaxWorkers < 1 THEN 1
    ELSE IF configIn.MaxWorkers > 100 THEN 100
    ELSE configIn.MaxWorkers

\* C20: construction is refused only for an empty list or a cycle, never for
\* the value of MaxWorkers; and a Parallel or Comprehensive run starts as many
\* workers as the caller's MaxWorkers brought into 1..100.
C20_WorkersStartedIsClampedMaxWorkers ==
    /\ [](phase = "rejected" => (Len(tests) = 0 \/ Cyclic(Dependencies)))
    /\ [](phase \notin {"new", "rejected"} => config.MaxWorkers = ClampedInput)
    /\ [][(phase = "constructed" /\ phase' = "running" /\ Concurrent) =>
              wg' = ClampedInput]_vars

\* a run has just started 100 workers for a caller's MaxWorkers of 101
C20_Witness ==
    /\ Concurrent
    /\ phase = "running"
    /\ configIn.MaxWorkers = MaxWorkersCap + 1
    /\ wg = MaxWorkersCap
    /\ OtherWorkers = MaxWorkersCap - MaxWorkersIn

\* C15: when Run has returned for an acyclic test set in Sequential,
\* Parallel or Comprehensive mode, its error is nil and its result list is
\* not nil (so only a FailFast run returns an error).
C15_ErrorOnlyFromFailFast ==
    (/\ phase = "returned"
     /\ config.Mode \in {"sequential", "parallel", "comprehensive"}
     /\ ~Cyclic(Dependencies)) =>
        /\ runOut.err = NoErr
        /\ ~runOut.nilResults

\* C16: from construction on GetMetrics().Total is the number of submitted
\* tests, and once Run has returned no step changes a counter or records a
\* result, so any two GetMetrics calls made then give the same counts.
C16_MetricsTotalAndStable ==
    /\ [](phase \notin {"new", "rejected"} => GetMetrics.Total = Len(tests))
    /\ [][phase = "returned" => (GetMetrics' = GetMetrics /\ results' = results)]_vars

\* Run has returned with one Passed, one Failed and one Skipped test and a
\* retry counted, while the dispatcher goroutine has steps left to take
C16_Witness ==
    /\ phase = "returned"
    /\ GetMetrics = [Total |-> NumTests, Passed |-> 1, Failed |-> 1, Skipped |-> 1,
                     Retries |-> 1]
    /\ disp.pc = "top"

\* C17: a test whose Execute was in flight when the global timeout
\* cancelled the run context, the callbacks observing the cancelled context,
\* never gets a Passed result: executeTest leaves with Failed, and when Run
\* has returned the test has exactly one result, Failed or Skipped.
C17_CancelledInFlightNeverPassed ==
    \A t \in cancelledInFlight :
        /\ ~HasResult(t, "passed")
        /\ \A e \in Executors : ex[e].test = t => ex[e].status # "passed"
        /\ phase = "returned" =>
              /\ Len(results[t]) = 1
              /\ results[t][1].Status \in {"failed", "skipped"}

\* a test in flight at the timeout was retried under the cancelled context
\* and recorded Failed, and Run has returned
C17_Witness ==
    \E t \in cancelledInFlight :
        /\ phase = "returned"
        /\ ctx = "deadline exceeded"
        /\ lifecycleCalls[t] = 2
        /\ results[t] = << [TestID |-> t, Status |-> "failed", RetryCount |-> 1,
                            SkipReason |-> ""] >>

AllWorkersExited == \A w \in Workers : ex[w].pc \in {"off", "exited"}

\* C18: Stop's goroutine cancels the run context before it waits; Stop
\* returns nil only with the context cancelled and every worker exited; when
\* its timer fires before that, it returns the shutdown-timeout error; and
\* once Stop is called during a Parallel run, every worker exits and Run
\* returns.
C18_StopCancelsAndWaits ==
    /\ [](stop.helper \in {"wait", "done"} => ctxDone)
    /\ [](stop.helper = "done" => (wg = 0 /\ AllWorkersExited))
    /\ [](stop.caller = "nil" => stop.helper = "done")
    /\ [][(stop.caller = "select" /\ stop'.caller # "select") =>
              \/ stop'.caller = "nil" /\ stop.helper = "done"
              \/ stop'.caller = "shutdown timeout"]_vars
    /\ (stop.caller # "off" /\ phase = "running") ~>
            (phase = "returned" /\ wg = 0 /\ AllWorkersExited)

\* Stop was called during the run and has returned nil: the test in flight
\* was finished, a queued one was skipped, and Run has not yet returned
C18_Witness ==
    /\ stop.caller = "nil"
    /\ phase = "running"
    /\ ctx = "canceled"
    /\ HasResult(1, "passed")
    /\ SkippedFor(2, {"context canceled"})

\* C30: NewExecutionPlan returns an error for every test set in which some
\* test names a dependency that is the ID of no submitted test.
C30_UnknownDependencyRejected ==
    (phase # "new" /\ ~AllDepsSubmitted) =>
        (phase = "rejected" /\ err # NoErr /\ plan = NoPlan)

\* C24: whenever the plan exists, GetReadyTests returns, in list order,
\* exactly the tests that are neither completed nor failed in the plan and
\* whose dependencies are all completed and none failed.
C24_ReadyTestsExact ==
    plan.built =>
        LET ready == GetReadyTests(plan)
            isReady(t) == /\ t \notin plan.completed
                          /\ t \notin plan.failed
                          /\ plan.dependencies[t] \subseteq plan.completed
                          /\ plan.dependencies[t] \cap plan.failed = {}
        IN  /\ Range(ready) = { t \in TestIDs : isReady(t) }
            /\ \A i, j \in 1..Len(ready) : i < j => ready[i] < ready[j]

\* the plan holds a failed test with a dependent, which is held back, while
\* the third test is ready
C24_Witness ==
    /\ plan.built
    /\ \E a \in plan.failed : \E b \in TestIDs : a \in Dependencies[b]
    /\ Len(GetReadyTests(plan)) = 1

\* C25: when Run has returned, the engine's completedTests and
\* failedTestsList hold the same IDs as the plan's completed and failed sets.
C25_EngineAndPlanInSync ==
    phase = "returned" =>
        /\ completedTests = plan.completed
        /\ failedTestsList = plan.failed

\* C26: once the run context is cancelled, executeTest does not start a
\* retry attempt (an attempt after a failed one) of any test.
C26_NoRetryAfterCancel ==
    [][\A e \in Executors :
          (ctxDone /\ ex[e].pc = "attempt" /\ ex[e].attempt > 0) =>
              ex'[e].pc # "lifecycle"]_vars


\* the executors that hold test t between its receipt (or its pick in the
\* sequential loop) and the marking that follows its result
Holding(t) ==
    { e \in Executors : ex[e].test = t /\
          ex[e].pc \in {"got", "attempt", "lifecycle", "record", "mark", "markplan"} }

\* C27: in every reachable state each test has at most one result, is held by
\* at most one executor, and its executeTest was started at most once (the
\* calls of runTestLifecycle made for the test so far are those of the one
\* executeTest that holds it, or are over and within one attempt budget); a
\* test that was skipped never entered executeTest, and a test that is being
\* executed has no result yet.
C27_OneExecutionOneResult ==
    \A t \in TestIDs :
        /\ Len(results[t]) <= 1
        /\ Cardinality(Holding(t)) <= 1
        /\ \A e \in Holding(t) :
              /\ ex[e].pc = "got" => lifecycleCalls[t] = 0
              /\ ex[e].pc = "attempt" => lifecycleCalls[t] = ex[e].attempt
              /\ ex[e].pc \in {"lifecycle", "record", "mark", "markplan"} =>
                    lifecycleCalls[t] = ex[e].attempt + 1
              /\ ex[e].pc \in {"got", "attempt", "lifecycle", "record"} =>
                    results[t] = << >>
        /\ lifecycleCalls[t] <= maxAttempts(config, MaxRetries[t])
        /\ HasResult(t, "skipped") => lifecycleCalls[t] = 0

\* a concurrent run returned in which one test was retried, another was
\* skipped, and two workers were executing at the same time
C27_Witness ==
    /\ phase = "returned"
    /\ Concurrent
    /\ \E t \in TestIDs : HasResult(t, "skipped")
    /\ \E t \in TestIDs : lifecycleCalls[t] >= 2 /\ Len(results[t]) = 1
    /\ \A t \in TestIDs : Len(results[t]) = 1


\* the number of results in the result list with the given status
ResultsWith(status) == Cardinality({ t \in TestIDs : HasResult(t, status) })

\* C28: in every reachable state of an engine that was constructed,
\* Passed + Failed + Skipped is at most Total; once Run has returned each of
\* the three counters equals the number of results with that status, and
\* their sum the length of the result list.
C28_CountersMatchResults ==
    LET m == GetMetrics
    IN  /\ phase \in {"constructed", "running", "returned"} =>
              m.Passed + m.Failed + m.Skipped <= m.Total
        /\ phase = "returned" =>
              /\ m.Passed = ResultsWith("passed")
              /\ m.Failed = ResultsWith("failed")
              /\ m.Skipped = ResultsWith("skipped")
              /\ \A t \in TestIDs : Len(results[t]) <= 1
              /\ m.Passed + m.Failed + m.Skipped =
                    Cardinality({ t \in TestIDs : results[t] # << >> })

\* Run returned with a passed, a failed and a skipped result
C28_Witness ==
    /\ phase = "returned"
    /\ GetMetrics.Passed = 1
    /\ GetMetrics.Failed = 1
    /\ GetMetrics.Skipped = 1


RECURSIVE SumOver(_, _)
\* the sum of f[t] over the tests t of S
SumOver(S, f) ==
    IF S = {} THEN 0
    ELSE LET t == CHOOSE x \in S : TRUE IN f[t] + SumOver(S \ {t}, f)

\* the retry attempts taken so far for each test: its calls of
\* runTestLifecycle beyond the first
RetriesTaken == [t \in TestIDs |-> IF lifecycleCalls[t] > 1 THEN lifecycleCalls[t] - 1 ELSE 0]

\* the RetryCount of the test's result, 0 when it has none
ResultRetryCount == [t \in TestIDs |-> IF results[t] = << >> THEN 0 ELSE results[t][1].RetryCount]

\* C29: in every reachable state the Retries counter equals the number of
\* retry attempts taken so far (attempts beyond a test's first); once Run has
\* returned it equals the sum of RetryCount over all results; it is 0 while
\* retries are disabled.
C29_RetriesCounter ==
    /\ GetMetrics.Retries = SumOver(TestIDs, RetriesTaken)
    /\ phase = "returned" => GetMetrics.Retries = SumOver(TestIDs, ResultRetryCount)
    /\ ~config.EnableRetry => GetMetrics.Retries = 0

\* Run returned after two tests were retried, one of which passed on its
\* retry and one of which failed again
C29_Witness ==
    /\ phase = "returned"
    /\ GetMetrics.Retries = 2
    /\ \E t \in TestIDs : HasResult(t, "passed") /\ ResultRetryCount[t] = 1
    /\ \E t \in TestIDs : HasResult(t, "failed") /\ ResultRetryCount[t] = 1


\* ------------------------------------ properties of runTestLifecycle
\* the log entries of the n-th runTestLifecycle call of test t
Calls(t, n) == SelectSeq(callLog[t], LAMBDA ev : ev.call = n)

\* what was invoked in a call, in order ("return" closes it)
Names(evs) == [i \in 1..Len(evs) |-> evs[i].cb]

IsPrefix(a, b) == Len(a) <= Len(b) /\ \A i \in 1..Len(a) : a[i] = b[i]

\* the entry of callback cb in a call, as a set (empty when it was not invoked)
Invoked(evs, cb) == { i \in 1..Len(evs) : evs[i].cb = cb }

SetupFailed(evs) == \E i \in Invoked(evs, "Setup") : evs[i].err # ""

\* Setup did not fail and Execute was invoked and returned no error
Succeeded(evs) ==
    /\ ~SetupFailed(evs)
    /\ \E i \in Invoked(evs, "Execute") : evs[i].err = ""

HasReturned(evs) == Invoked(evs, "return") # {}

\* the error a call returned
ReturnErr(evs) == evs[CHOOSE i \in Invoked(evs, "return") : TRUE].err

\* the order of invocations the lifecycle prescribes for test t in a call
\* whose Setup failed or did not fail
Prescribed(t, setupFailed) ==
    IF setupFailed THEN << "Setup", "return" >>
    ELSE (IF callbacks[t].Setup THEN << "Setup" >> ELSE << >>)
         \o (IF callbacks[t].Execute THEN << "Execute" >> ELSE << >>)
         \o (IF callbacks[t].Teardown THEN << "Teardown" >> ELSE << >>)
         \o << "return" >>

\* the test is inside runTestLifecycle now
InsideCall(t) == \E e \in Executors : ex[e].test = t /\ ex[e].pc = "lifecycle"

\* C23: in every runTestLifecycle call the callbacks are invoked in the order
\* Setup, Execute, Teardown, each at most once and only when set; a call whose
\* Setup returned an error returns an error having invoked neither Execute nor
\* Teardown; a call whose Setup succeeded or is absent invokes Teardown (when
\* set) exactly once, after Execute returned or was found missing, and
\* before the call returns.
C23_LifecycleOrder ==
    \A t \in TestIDs : \A n \in 1..lifecycleCalls[t] :
        LET evs  == Calls(t, n)
            full == Prescribed(t, SetupFailed(evs))
        IN  /\ IsPrefix(Names(evs), full)
            /\ (n < lifecycleCalls[t] \/ ~InsideCall(t)) => Names(evs) = full
            /\ (HasReturned(evs) /\ SetupFailed(evs)) => ReturnErr(evs) # ""

\* Run returned after a test with all three callbacks had one call cut short
\* by its Setup and one call in which Execute failed and Teardown ran
C23_Witness ==
    /\ phase = "returned"
    /\ \E t \in TestIDs :
         /\ Names(Calls(t, 1)) = << "Setup", "return" >>
         /\ Names(Calls(t, 2)) = << "Setup", "Execute", "Teardown", "return" >>
         /\ ~Succeeded(Calls(t, 2))

\* a Teardown of the call returned an error
TeardownFailed(evs) == \E i \in Invoked(evs, "Teardown") : evs[i].err # ""

\* C21: whatever Teardown returns, a call whose Setup did not fail and whose
\* Execute succeeded returns no error and is the test's last call (no retry
\* follows it), and the test's result is Passed exactly when its last call is
\* such a call; the Failed counter counts the tests whose last call is not.
C21_TeardownErrorIgnored ==
    /\ \A t \in TestIDs : \A n \in 1..lifecycleCalls[t] :
         LET evs == Calls(t, n)
         IN  /\ HasReturned(evs) => (ReturnErr(evs) = "" <=> Succeeded(evs))
             /\ Succeeded(evs) => n = lifecycleCalls[t]
    /\ \A t \in TestIDs :
         results[t] # << >> =>
             (results[t][1].Status = "passed" <=> Succeeded(Calls(t, lifecycleCalls[t])))
    /\ phase = "returned" =>
         GetMetrics.Failed =
             Cardinality({ t \in TestIDs : /\ results[t] # << >>
                                           /\ ~Succeeded(Calls(t, lifecycleCalls[t])) })

\* Run returned with a test that passed on its first call although its
\* Teardown returned an error, and no test failed
C21_Witness ==
    /\ phase = "returned"
    /\ GetMetrics.Failed = 0
    /\ \E t \in TestIDs :
         /\ lifecycleCalls[t] = 1
         /\ MaxRetries[t] > 0
         /\ TeardownFailed(Calls(t, 1))
         /\ HasResult(t, "passed")

\* the tests without an Execute callback
NoExecute == { t \in TestIDs : ~callbacks[t].Execute }

\* C22 as stated: a test without Execute is accepted at construction, every
\* call of its lifecycle returns "test has no Execute function", and its
\* result is Failed.
C22_EveryAttemptNoExecuteError ==
    /\ (NoExecute # {} /\ phase # "new") => (phase # "rejected" /\ err = NoErr)
    /\ \A t \in NoExecute :
         /\ \A n \in 1..lifecycleCalls[t] :
              HasReturned(Calls(t, n)) =>
                  ReturnErr(Calls(t, n)) = "test has no Execute function"
         /\ results[t] # << >> => results[t][1].Status = "failed"

\* C22 as amended: a test without Execute is accepted at construction; every
\* call of its lifecycle returns an error, which is "test has no Execute
\* function" unless the call's Setup failed ("setup failed" then); every call
\* counts as a failed attempt and its result is Failed, never Passed.
C22_NoExecuteAlwaysFails ==
    /\ (NoExecute # {} /\ phase # "new") => (phase # "rejected" /\ err = NoErr)
    /\ \A t \in NoExecute :
         /\ \A n \in 1..lifecycleCalls[t] :
              LET evs == Calls(t, n)
              IN  HasReturned(evs) =>
                      ReturnErr(evs) = IF SetupFailed(evs) THEN "setup failed"
                                       ELSE "test has no Execute function"
         /\ ~InsideCall(t) => attemptFails[t] = lifecycleCalls[t]
         /\ ~HasResult(t, "passed")
         /\ results[t] # << >> => results[t][1].Status = "failed"

\* Run returned with a test without Execute that failed after a retry, one
\* call stopped by its Setup and the other by the missing Execute
C22_Witness ==
    /\ phase = "returned"
    /\ \E t \in NoExecute :
         /\ HasResult(t, "failed")
         /\ lifecycleCalls[t] = 2
         /\ \E n, m \in 1..2 :
              /\ ReturnErr(Calls(t, n)) = "setup failed"
              /\ ReturnErr(Calls(t, m)) = "test has no Execute function"


\* how many times test t is in the work channel
Queued(t) == Cardinality({ i \in 1..Len(workChan) : workChan[i] = t })

\* the workers that received test t and have not recorded a result for it
Received(t) ==
    { w \in Workers : ex[w].test = t /\
          ex[w].pc \in {"got", "attempt", "lifecycle", "record"} }

\* C31: in Parallel and Comprehensive modes every test was pushed at most
\* once (it is in the queue, in a worker's hands or has its result, once in
\* all, exactly when the dispatcher has pushed it), the queue never holds
\* more items than there are tests, and whenever the dispatcher is about to
\* push, the test is one it has not pushed and the queue has room.
C31_DispatchedOnceNeverBlocks ==
    Concurrent =>
        /\ Len(workChan) <= Len(tests)
        /\ \A t \in TestIDs :
             Queued(t) + Cardinality(Received(t)) + Len(results[t]) =
                 IF t \in disp.dispatched THEN 1 ELSE 0
        /\ disp.pc = "push" =>
             /\ Head(disp.ready) \notin disp.dispatched
             /\ Len(workChan) < Len(tests)

\* the dispatcher has pushed every test and the queue is full
C31_Witness ==
    /\ Concurrent
    /\ disp.dispatched = TestIDs
    /\ Len(workChan) = Len(tests)
    /\ Len(tests) = NumTests


\* C32: in Parallel and Comprehensive modes the plan's completed and failed
\* sets are at every moment within the engine's; every test in the queue or
\* just received by a worker passes shouldRunTest, and no result carries the
\* skip reason "dependencies not met".
C32_PlanWithinEngine ==
    Concurrent =>
        /\ plan.completed \subseteq completedTests
        /\ plan.failed \subseteq failedTestsList
        /\ \A i \in 1..Len(workChan) :
             shouldRunTest(Dependencies[workChan[i]], completedTests, failedTestsList)
        /\ \A w \in Workers :
             ex[w].pc = "got" =>
                 shouldRunTest(Dependencies[ex[w].test], completedTests, failedTestsList)
        /\ \A t \in TestIDs : ~SkippedFor(t, {"dependencies not met"})

\* a worker has marked a passed test in the engine and not yet in the plan,
\* while a test with a dependency has been started by a worker
C32_Witness ==
    /\ Concurrent
    /\ plan.completed # completedTests
    /\ \E t \in TestIDs : Dependencies[t] # {} /\ lifecycleCalls[t] > 0


\* C33: when NewExecutionPlan rejects a test set for a circular dependency,
\* the test named in the error lies on a dependency cycle (it depends on
\* itself through one or more dependencies).
C33_NamedTestOnCycle ==
    (phase = "rejected" /\ err.kind = CircularErr(0).kind) =>
        err.test \in DependsOnPlus(Dependencies, err.test)


\* C34: during a Run in Parallel mode, with Stop called at any moment, the
\* work queue is closed only by the dispatcher goroutine after dispatchTests
\* returned (the context was done, or every test was dispatched), with no
\* push pending; once closed it stays closed, the dispatcher is finished and
\* nothing is added to the queue.
C34_ClosedOnceAfterLastPush ==
    [][/\ chanClosed =>
             /\ chanClosed'
             /\ disp'.pc = "done"
             /\ Len(workChan') <= Len(workChan)
       /\ (~chanClosed /\ chanClosed') =>
             /\ disp.pc = "closing"
             /\ disp.ready = << >>
             /\ (ctxDone \/ disp.dispatched = TestIDs)]_vars

\* the queue was closed after Stop cancelled the run while some tests, not
\* all, had been pushed
C34_Witness ==
    /\ chanClosed
    /\ stop.caller # "off"
    /\ ctxDone
    /\ disp.dispatched # {}
    /\ disp.dispatched # TestIDs


\* C35: in every reachable state of every mode no test is both completed and
\* failed, in the engine's sets and in the plan's; a test is in a completed
\* set only when its executeTest ended Passed and in a failed set only when
\* it ended Failed (its result says so once recorded); a test with a Skipped
\* result is in none of the four sets.
C35_MarkerSetsDisjoint ==
    /\ completedTests \cap failedTestsList = {}
    /\ plan.completed \cap plan.failed = {}
    /\ \A t \in completedTests \cup plan.completed : HasResult(t, "passed")
    /\ \A t \in failedTestsList \cup plan.failed : HasResult(t, "failed")
    /\ \A t \in TestIDs :
         HasResult(t, "skipped") =>
             t \notin completedTests \cup failedTestsList \cup plan.completed \cup plan.failed

\* Run returned with a test in the completed sets, a test in the failed sets
\* and a skipped test in neither
C35_Witness ==
    /\ phase = "returned"
    /\ plan.completed # {}
    /\ plan.failed # {}
    /\ completedTests # {}
    /\ failedTestsList # {}
    /\ \E t \in TestIDs : HasResult(t, "skipped")


\* ------------------------------- properties of the callbacks' contexts
\* the entries of the call log of test t for the callbacks in cbs
CallsOf(t, cbs) == { i \in 1..Len(callLog[t]) : callLog[t][i].cb \in cbs }

\* C36: every Setup and Execute is handed a context that is a child of the
\* run context with a deadline, the timeout being the test's Timeout when
\* that is greater than zero and RunConfig.TestTimeout otherwise; that
\* context is done at the call whenever the run context is, and otherwise
\* exactly when the timeout has elapsed.  Every Teardown is handed a
\* background context, which is not done even when the run context is.
C36_CallbackContexts ==
    \A t \in TestIDs :
        /\ \A i \in CallsOf(t, {"Setup", "Execute"}) :
             LET ev == callLog[t][i]
                 timeout == IF Timeout[t] > 0 THEN Timeout[t] ELSE TestTimeout
             IN  /\ ev.given.parent = "run"
                 /\ ev.given.deadline
                 /\ ev.given.timeout = timeout
                 /\ ev.runCtx # "live" => ev.done
                 /\ ev.runCtx = "live" => (ev.done <=> ev.elapsed >= timeout)
        /\ \A i \in CallsOf(t, {"Teardown"}) :
             LET ev == callLog[t][i]
             IN  /\ ev.given.parent = "background"
                 /\ ~ev.done

\* a test with a Timeout of its own had its Setup called on a live context,
\* its Execute called after the run context was cancelled, before the test's
\* timeout had elapsed, and its Teardown called after that
C36_Witness ==
    \E t \in TestIDs :
        /\ Timeout[t] > 0
        /\ \E i \in CallsOf(t, {"Setup"}) : ~callLog[t][i].done
        /\ \E i \in CallsOf(t, {"Execute"}) :
             /\ callLog[t][i].runCtx # "live"
             /\ callLog[t][i].elapsed < Timeout[t]
             /\ callLog[t][i].done
        /\ \E i \in CallsOf(t, {"Teardown"}) : callLog[t][i].runCtx # "live"


\* no dependency path leads from one of the two tests to the other
Unrelated(a, b) ==
    /\ a \notin DependsOnPlus(Dependencies, b)
    /\ b \notin DependsOnPlus(Dependencies, a)

\* C37: in an order GetExecutionOrder returns, two tests with no dependency
\* path between them stand in the order of the submitted list; for a set
\* with no dependencies an order is returned and it is the submitted list,
\* whatever the tests' Priority values.
C37_ListOrderKept ==
    phase = "ordered" =>
        /\ orderErr = NoErr =>
             \A a, b \in TestIDs :
                 (IndexOf(tests, a) < IndexOf(tests, b) /\ Unrelated(a, b)) =>
                     IndexOf(ordered, a) < IndexOf(ordered, b)
        /\ (\A t \in TestIDs : Dependencies[t] = {}) =>
             (orderErr = NoErr /\ ordered = tests)

\* an order was returned for a set without dependencies in which a later
\* test has a higher Priority than an earlier one
C37_Witness ==
    /\ phase = "ordered"
    /\ orderErr = NoErr
    /\ \A t \in TestIDs : Dependencies[t] = {}
    /\ \E a, b \in TestIDs : a < b /\ Priority[a] < Priority[b]
    /\ ordered = tests


\* ------------------------------------------- properties of the backoff
\* base_delay * 2^k, not wrapped
ExactBackoff(k) == ShiftLeft(FromNat(BaseDelay, WideLimbs), k)

\* an int64 that is not negative as a wide number
Widened(a) == a \o [i \in 1..(WideLimbs - Int64Limbs) |-> 0]

\* C38: the Duration slept before retry attempt k >= 1 is not negative and
\* lies between base_delay * (2^k - 1) and base_delay * (2^k + 1), with
\* base_delay = 100ms; nothing is slept before the first attempt.
C38_BackoffRange ==
    /\ (slept.state # "none" /\ sleepIn.attempt = 0) => slept.state = "not slept"
    /\ (slept.state # "none" /\ sleepIn.attempt >= 1) =>
          /\ slept.state = "slept"
          /\ ~IsNegative(slept.arg)
          /\ LET low  == AddLimbs(ExactBackoff(sleepIn.attempt),
                                  NegLimbs(FromNat(BaseDelay, WideLimbs)))
                 high == AddLimbs(ExactBackoff(sleepIn.attempt),
                                  FromNat(BaseDelay, WideLimbs))
             IN  /\ ~LessLimbs(Widened(slept.arg), low)
                 /\ ~LessLimbs(high, Widened(slept.arg))

====
